---- MODULE Spec2Model ----
(***************************************************************************)
(* Model of the gpt-image-1-playground: its cost estimator and its route   *)
(* handlers.                                                               *)
(*                                                                         *)
(*   src/src/lib/cost-utils.ts   calculateApiCost(usage)                   *)
(*   src/unnamed/part_000        calculateApiCost(usage, model), the       *)
(*                               model-aware revision of the same file     *)
(*   src/src/app/api/images/route.ts          POST /api/images             *)
(*   src/unnamed/part_003                     its Images API revision      *)
(*   src/src/app/api/video/route.ts           POST and GET /api/video      *)
(*   src/src/app/api/prompt-enhance/route.ts  POST /api/prompt-enhance     *)
(*                                                                         *)
(* JavaScript numbers are IEEE-754 binary64 values.  The per-token rates   *)
(* (0.000008, 0.000002, ...) are not representable exactly, so the         *)
(* products, the sums and the final Math.round are modelled with exact     *)
(* binary64 arithmetic (round to nearest, ties to even) on arbitrary       *)
(* precision naturals, because TLC's integers are 32 bits wide.            *)
(***************************************************************************)
EXTENDS Integers, Sequences, FiniteSets, TLC

(***************************************************************************)
(* Arbitrary precision naturals: little-endian sequences of 15-bit limbs   *)
(* without leading (high) zero limbs; <<>> is zero.                        *)
(***************************************************************************)
LimbBits == 15
LimbBase == 2 ^ LimbBits

RECURSIVE Trim(_)
Trim(a) ==
    IF a = <<>> THEN a
    ELSE IF a[Len(a)] = 0 THEN Trim(SubSeq(a, 1, Len(a) - 1)) ELSE a

RECURSIVE NatOfInt(_)
NatOfInt(n) ==
    IF n = 0 THEN <<>> ELSE <<n % LimbBase>> \o NatOfInt(n \div LimbBase)

RECURSIVE IntOfNat(_)
IntOfNat(a) ==
    IF a = <<>> THEN 0 ELSE Head(a) + LimbBase * IntOfNat(Tail(a))

LimbOr0(a) == IF a = <<>> THEN 0 ELSE Head(a)
RestOf(a) == IF a = <<>> THEN <<>> ELSE Tail(a)

RECURSIVE AddCarry(_, _, _)
AddCarry(a, b, c) ==
    IF a = <<>> /\ b = <<>>
    THEN (IF c = 0 THEN <<>> ELSE <<c>>)
    ELSE LET x == LimbOr0(a) + LimbOr0(b) + c
         IN  <<x % LimbBase>> \o AddCarry(RestOf(a), RestOf(b), x \div LimbBase)

NatAdd(a, b) == AddCarry(a, b, 0)

RECURSIVE SubBorrow(_, _, _)
SubBorrow(a, b, c) ==
    IF a = <<>> THEN <<>>
    ELSE LET x == Head(a) - LimbOr0(b) - c
         IN  IF x < 0
             THEN <<x + LimbBase>> \o SubBorrow(Tail(a), RestOf(b), 1)
             ELSE <<x>> \o SubBorrow(Tail(a), RestOf(b), 0)

\* a - b for a >= b
NatSub(a, b) == Trim(SubBorrow(a, b, 0))

RECURSIVE CmpFromTop(_, _, _)
CmpFromTop(a, b, i) ==
    IF i = 0 THEN 0
    ELSE IF a[i] > b[i] THEN 1
    ELSE IF a[i] < b[i] THEN -1
    ELSE CmpFromTop(a, b, i - 1)

\* -1, 0 or 1 as a < b, a = b, a > b
NatCmp(a, b) ==
    IF Len(a) > Len(b) THEN 1
    ELSE IF Len(a) < Len(b) THEN -1
    ELSE CmpFromTop(a, b, Len(a))

RECURSIVE MulLimb(_, _, _)
MulLimb(a, n, c) ==
    IF a = <<>>
    THEN (IF c = 0 THEN <<>> ELSE <<c>>)
    ELSE LET x == Head(a) * n + c
         IN  <<x % LimbBase>> \o MulLimb(Tail(a), n, x \div LimbBase)

ShiftLimb(a) == IF a = <<>> THEN <<>> ELSE <<0>> \o a

RECURSIVE NatMul(_, _)
NatMul(a, b) ==
    IF a = <<>> \/ b = <<>> THEN <<>>
    ELSE NatAdd(MulLimb(a, Head(b), 0), ShiftLimb(NatMul(a, Tail(b))))

RECURSIVE BitsOfLimb(_)
BitsOfLimb(x) == IF x = 0 THEN 0 ELSE 1 + BitsOfLimb(x \div 2)

BitLen(a) ==
    IF a = <<>> THEN 0 ELSE LimbBits * (Len(a) - 1) + BitsOfLimb(a[Len(a)])

RECURSIVE ShiftLimbs(_, _)
ShiftLimbs(a, n) == IF n = 0 THEN a ELSE ShiftLimbs(ShiftLimb(a), n - 1)

\* a * 2^k
Shl(a, k) == ShiftLimbs(MulLimb(a, 2 ^ (k % LimbBits), 0), k \div LimbBits)

\* quotient and remainder of a by a divisor d below LimbBase
RECURSIVE DivRemLimb(_, _)
DivRemLimb(a, d) ==
    IF a = <<>> THEN [q |-> <<>>, r |-> 0]
    ELSE LET hi  == DivRemLimb(Tail(a), d)
             cur == hi.r * LimbBase + Head(a)
         IN  [q |-> <<cur \div d>> \o hi.q, r |-> cur % d]

DropLimbs(a, n) == IF n >= Len(a) THEN <<>> ELSE SubSeq(a, n + 1, Len(a))

\* floor(a / 2^k)
Shr(a, k) ==
    Trim(DivRemLimb(DropLimbs(a, k \div LimbBits), 2 ^ (k % LimbBits)).q)

IsOdd(a) == a # <<>> /\ a[1] % 2 = 1

(***************************************************************************)
(* IEEE-754 binary64 values: sign * man * 2^exp with man a natural of at   *)
(* most 53 bits, kept canonical (man odd; zero is FZero).  All values of   *)
(* the estimator lie far inside the normal range, so subnormals, overflow, *)
(* NaN and the sign of zero are not represented.                           *)
(***************************************************************************)
MantBits == 53

FZero == [sign |-> 1, man |-> <<>>, exp |-> 0]

RECURSIVE Canon(_, _, _)
Canon(s, m, e) ==
    IF m = <<>> THEN FZero
    ELSE IF m[1] = 0 /\ Len(m) > 1 THEN Canon(s, Tail(m), e + LimbBits)
    ELSE IF IsOdd(m) THEN [sign |-> s, man |-> m, exp |-> e]
    ELSE Canon(s, Shr(m, 1), e + 1)

\* round sign * m * 2^e to binary64, nearest with ties to even; sticky says
\* that the exact value lies strictly above m * 2^e (an inexact quotient)
FRound(s, m, e, sticky) ==
    LET L == BitLen(m)
    IN  IF L <= MantBits THEN Canon(s, m, e)
        ELSE LET k    == L - MantBits
                 q    == Shr(m, k)
                 low  == NatSub(m, Shl(q, k))
                 half == Shl(<<1>>, k - 1)
                 c    == NatCmp(low, half)
                 up   == c = 1 \/ (c = 0 /\ (sticky \/ IsOdd(q)))
             IN  Canon(s, IF up THEN NatAdd(q, <<1>>) ELSE q, e + k)

\* the binary64 value of an integer (exact below 2^53)
FromInt(n) == IF n < 0 THEN Canon(-1, NatOfInt(-n), 0) ELSE Canon(1, NatOfInt(n), 0)

\* x * y
FMul(x, y) == FRound(x.sign * y.sign, NatMul(x.man, y.man), x.exp + y.exp, FALSE)

\* x + y
FAdd(x, y) ==
    IF x.man = <<>> THEN y
    ELSE IF y.man = <<>> THEN x
    ELSE LET e  == IF x.exp < y.exp THEN x.exp ELSE y.exp
             mx == Shl(x.man, x.exp - e)
             my == Shl(y.man, y.exp - e)
             c  == NatCmp(mx, my)
         IN  IF x.sign = y.sign THEN FRound(x.sign, NatAdd(mx, my), e, FALSE)
             ELSE IF c = 0 THEN FZero
             ELSE IF c = 1 THEN FRound(x.sign, NatSub(mx, my), e, FALSE)
             ELSE FRound(y.sign, NatSub(my, mx), e, FALSE)

\* x / y for a divisor whose mantissa fits one limb (the code divides by 10000)
FDiv(x, y) ==
    IF x.man = <<>> THEN FZero
    ELSE LET s  == MantBits + 2 + BitLen(y.man)
             dr == DivRemLimb(Shl(x.man, s), y.man[1])
         IN  FRound(x.sign * y.sign, Trim(dr.q), x.exp - s - y.exp, dr.r # 0)

\* -1, 0 or 1 as x < y, x = y, x > y
FCmp(x, y) ==
    LET e  == IF x.exp < y.exp THEN x.exp ELSE y.exp
        c  == NatCmp(Shl(x.man, x.exp - e), Shl(y.man, y.exp - e))
    IN  IF x.man = <<>> /\ y.man = <<>> THEN 0
        ELSE IF x.man = <<>> THEN -y.sign
        ELSE IF y.man = <<>> THEN x.sign
        ELSE IF x.sign # y.sign THEN x.sign
        ELSE x.sign * c

FLeq(x, y) == FCmp(x, y) <= 0

\* Math.round: the integer nearest to x, a half rounding towards +Infinity
MathRound(x) ==
    IF x.exp >= 0 THEN x
    ELSE LET k    == -x.exp
             q    == Shr(x.man, k)
             low  == NatSub(x.man, Shl(q, k))
             c    == NatCmp(low, Shl(<<1>>, k - 1))
             up   == IF x.sign = 1 THEN c >= 0 ELSE c = 1
         IN  Canon(x.sign, IF up THEN NatAdd(q, <<1>>) ELSE q, 0)

\* the integer value of an integer-valued x of small magnitude
IntOfFloat(x) == x.sign * IntOfNat(Shl(x.man, x.exp))

(***************************************************************************)
(* JavaScript values.  Token counts are integer-valued numbers, kept as    *)
(* integers; reading a property that is absent yields Undefined.           *)
(***************************************************************************)
Undefined == [t |-> "undefined"]
Null == [t |-> "null"]
Num(n) == [t |-> "number", n |-> n]
Str(s) == [t |-> "string", s |-> s]
Bool(b) == [t |-> "boolean", b |-> b]

\* what a call yields when an exception leaves it
Thrown == [t |-> "thrown"]

\* typeof v
TypeOf(v) == IF v.t = "null" THEN "object" ELSE v.t

\* the operand test of v ?? d
Nullish(v) == v.t \in {"undefined", "null"}

\* a plausible slip: the field is used as it comes, without a default
Coalesce_NoDefault(v, d) == v

\* v ?? d
Coalesce(v, d) == IF Nullish(v) THEN d ELSE v

\* !v
Not(v) ==
    \/ Nullish(v)
    \/ (v.t = "number" /\ v.n = 0)
    \/ (v.t = "string" /\ v.s = "")
    \/ (v.t = "boolean" /\ ~v.b)

\* Math.max(a, b)
MathMax(a, b) == IF a >= b THEN a ELSE b

\* the number a decimal literal num/den denotes: the binary64 value nearest
\* to it (den = 5^j * 2^k with 5^j below LimbBase)
Literal(num, den) == FDiv(FromInt(num), FromInt(den))

(***************************************************************************)
(* src/src/lib/cost-utils.ts                                               *)
(***************************************************************************)
\* 0.000008
INPUT_COST_PER_TOKEN == Literal(8, 1000000)
\* 0.000002
CACHED_INPUT_COST_PER_TOKEN == Literal(2, 1000000)
\* 0.000032
IMAGE_OUTPUT_COST_PER_TOKEN == Literal(32, 1000000)

\* plausible slips in the guard of line 29
MissingUsage_NoDetailsCheck(usage) ==
    \/ Not(usage)
    \/ usage.output_tokens.t = "undefined"
    \/ usage.output_tokens.t = "null"

MissingUsage_NoUndefinedCheck(usage) ==
    \/ Not(usage)
    \/ Not(usage.input_tokens_details)
    \/ usage.output_tokens.t = "null"

MissingUsage_NoNullCheck(usage) ==
    \/ Not(usage)
    \/ Not(usage.input_tokens_details)
    \/ usage.output_tokens.t = "undefined"

\* line 29: the guard of the first early return
MissingUsage(usage) ==
    \/ Not(usage)
    \/ Not(usage.input_tokens_details)
    \/ usage.output_tokens.t = "undefined"
    \/ usage.output_tokens.t = "null"

\* line 40: the guard of the second early return
InvalidTokenTypes(textInT, imgInT, cachedInT, imgOutT) ==
    \/ TypeOf(textInT) # "number"
    \/ TypeOf(imgInT) # "number"
    \/ TypeOf(cachedInT) # "number"
    \/ TypeOf(imgOutT) # "number"

\* plausible slips in line 45: the discount taken from the text tokens only,
\* the operands of the subtraction exchanged, the floor forgotten
billableInputTokens_TextOnly(textInT, imgInT, cachedInT) ==
    MathMax(textInT - cachedInT, 0) + imgInT

billableInputTokens_Swapped(textInT, imgInT, cachedInT) ==
    MathMax(cachedInT - textInT - imgInT, 0)

billableInputTokens_NoClamp(textInT, imgInT, cachedInT) ==
    textInT + imgInT - cachedInT

\* line 45
billableInputTokens(textInT, imgInT, cachedInT) ==
    MathMax(textInT + imgInT - cachedInT, 0)

\* a plausible slip in lines 47-50: the cached tokens are not charged
costUSD_NoCachedTerm(billable, cachedInT, imgOutT) ==
    FAdd(FMul(FromInt(billable), INPUT_COST_PER_TOKEN),
         FMul(FromInt(imgOutT), IMAGE_OUTPUT_COST_PER_TOKEN))

\* lines 47-50
costUSD(billable, cachedInT, imgOutT) ==
    FAdd(FAdd(FMul(FromInt(billable), INPUT_COST_PER_TOKEN),
              FMul(FromInt(cachedInT), CACHED_INPUT_COST_PER_TOKEN)),
         FMul(FromInt(imgOutT), IMAGE_OUTPUT_COST_PER_TOKEN))

\* line 53: Math.round(costUSD * 10000) / 10000
costRounded(cost) == FDiv(MathRound(FMul(cost, FromInt(10000))), FromInt(10000))

\* the activation of calculateApiCost(usage): its return value and, when it
\* got that far, the local costUSD.  Reading a property of undefined or null
\* throws a TypeError, which leaves the function.
calculateApiCostFrame(usage) ==
    IF MissingUsage(usage) THEN [ret |-> Null, costUSD |-> Undefined]
    ELSE IF Nullish(usage.input_tokens_details) THEN [ret |-> Thrown, costUSD |-> Undefined]
    ELSE LET textInT   == Coalesce(usage.input_tokens_details.text_tokens, Num(0))
             imgInT    == Coalesce(usage.input_tokens_details.image_tokens, Num(0))
             cachedInT == Coalesce(usage.input_tokens_details.cached_tokens, Num(0))
             imgOutT   == Coalesce(usage.output_tokens, Num(0))
         IN  IF InvalidTokenTypes(textInT, imgInT, cachedInT, imgOutT)
             THEN [ret |-> Null, costUSD |-> Undefined]
             ELSE LET billable == billableInputTokens(textInT.n, imgInT.n, cachedInT.n)
                      cost     == costUSD(billable, cachedInT.n, imgOutT.n)
                  IN  [ret |-> [t |-> "object",
                                estimated_cost_usd    |-> costRounded(cost),
                                text_input_tokens     |-> textInT.n,
                                image_input_tokens    |-> imgInT.n,
                                cached_input_tokens   |-> cachedInT.n,
                                billable_input_tokens |-> billable,
                                image_output_tokens   |-> imgOutT.n],
                       costUSD |-> cost]

calculateApiCost(usage) == calculateApiCostFrame(usage).ret

(***************************************************************************)
(* src/unnamed/part_000: the revision of cost-utils.ts that takes the      *)
(* model as a second argument and has no cached-token rate                 *)
(***************************************************************************)
\* 0.000005
GPT_IMAGE_1_TEXT_INPUT_COST_PER_TOKEN == Literal(5, 1000000)
\* 0.00001
GPT_IMAGE_1_IMAGE_INPUT_COST_PER_TOKEN == Literal(10, 1000000)
\* 0.00004
GPT_IMAGE_1_IMAGE_OUTPUT_COST_PER_TOKEN == Literal(40, 1000000)
\* 0.000002
GPT_IMAGE_1_MINI_TEXT_INPUT_COST_PER_TOKEN == Literal(2, 1000000)
\* 0.0000025
GPT_IMAGE_1_MINI_IMAGE_INPUT_COST_PER_TOKEN == Literal(5, 2000000)
\* 0.000008
GPT_IMAGE_1_MINI_IMAGE_OUTPUT_COST_PER_TOKEN == Literal(8, 1000000)
\* 0.000005
GPT_IMAGE_1_5_TEXT_INPUT_COST_PER_TOKEN == Literal(5, 1000000)
\* 0.000008
GPT_IMAGE_1_5_IMAGE_INPUT_COST_PER_TOKEN == Literal(8, 1000000)
\* 0.000032
GPT_IMAGE_1_5_IMAGE_OUTPUT_COST_PER_TOKEN == Literal(32, 1000000)

\* line 39: the default value of the parameter, used when the argument is
\* omitted (or undefined)
ModelParameter(model) == IF model.t = "undefined" THEN Str("gpt-image-1.5") ELSE model

\* model === name
IsModel(model, name) == model.t = "string" /\ model.s = name

\* lines 61-74: the three rates chosen for a model
textInputCost(model) ==
    IF IsModel(model, "gpt-image-1-mini") THEN GPT_IMAGE_1_MINI_TEXT_INPUT_COST_PER_TOKEN
    ELSE IF IsModel(model, "gpt-image-1.5") THEN GPT_IMAGE_1_5_TEXT_INPUT_COST_PER_TOKEN
    ELSE GPT_IMAGE_1_TEXT_INPUT_COST_PER_TOKEN

imageInputCost(model) ==
    IF IsModel(model, "gpt-image-1-mini") THEN GPT_IMAGE_1_MINI_IMAGE_INPUT_COST_PER_TOKEN
    ELSE IF IsModel(model, "gpt-image-1.5") THEN GPT_IMAGE_1_5_IMAGE_INPUT_COST_PER_TOKEN
    ELSE GPT_IMAGE_1_IMAGE_INPUT_COST_PER_TOKEN

imageOutputCost(model) ==
    IF IsModel(model, "gpt-image-1-mini") THEN GPT_IMAGE_1_MINI_IMAGE_OUTPUT_COST_PER_TOKEN
    ELSE IF IsModel(model, "gpt-image-1.5") THEN GPT_IMAGE_1_5_IMAGE_OUTPUT_COST_PER_TOKEN
    ELSE GPT_IMAGE_1_IMAGE_OUTPUT_COST_PER_TOKEN

\* line 51
InvalidTokenTypesByModel(textInT, imgInT, imgOutT) ==
    \/ TypeOf(textInT) # "number"
    \/ TypeOf(imgInT) # "number"
    \/ TypeOf(imgOutT) # "number"

\* line 76
costUSDByModel(textInT, imgInT, imgOutT, model) ==
    FAdd(FAdd(FMul(FromInt(textInT), textInputCost(model)),
              FMul(FromInt(imgInT), imageInputCost(model))),
         FMul(FromInt(imgOutT), imageOutputCost(model)))

\* calculateApiCost(usage, model) of part_000
calculateApiCostByModel(usage, modelArg) ==
    LET model == ModelParameter(modelArg)
    IN  IF MissingUsage(usage) THEN Null
        ELSE IF Nullish(usage.input_tokens_details) THEN Thrown
        ELSE LET textInT == Coalesce(usage.input_tokens_details.text_tokens, Num(0))
                 imgInT  == Coalesce(usage.input_tokens_details.image_tokens, Num(0))
                 imgOutT == Coalesce(usage.output_tokens, Num(0))
             IN  IF InvalidTokenTypesByModel(textInT, imgInT, imgOutT) THEN Null
                 ELSE [t |-> "object",
                       estimated_cost_usd  |-> costRounded(costUSDByModel(textInT.n, imgInT.n, imgOutT.n, model)),
                       text_input_tokens   |-> textInT.n,
                       image_input_tokens  |-> imgInT.n,
                       image_output_tokens |-> imgOutT.n]

(***************************************************************************)
(* The state: the arguments of one call of the estimator and what the      *)
(* call returned.                                                          *)
(***************************************************************************)
VARIABLES
    usage,          \* the usage argument
    model,          \* the model argument (part_000 only)
    callee,         \* "none" before the call, then the file whose function ran
    result,         \* the value returned
    tracedCostUSD,  \* the local costUSD of the call, Undefined if never computed
    env,            \* process.env of the server process
    disk,           \* the server's filesystem: the output directory and its files
    req,            \* the HTTP request being handled
    pc,             \* the handler's position
    loc,            \* the handler's local variables
    log             \* what the handler did so far, in order

costVars == <<usage, model, callee, result, tracedCostUSD>>
routeVars == <<env, disk, req, pc, loc, log>>
vars == <<usage, model, callee, result, tracedCostUSD, env, disk, req, pc, loc, log>>

\* no server process: the estimator runs in the browser
NoServer ==
    /\ env = <<>>
    /\ disk = <<>>
    /\ req = <<>>
    /\ pc = "no server"
    /\ loc = <<>>
    /\ log = <<>>

\* token counts range over 0..MaxTokens
MaxTokens == 4
TokenCounts == 0 .. MaxTokens

Details(text, image, cached) ==
    [t |-> "object", text_tokens |-> text, image_tokens |-> image, cached_tokens |-> cached]

Usage(details, output) ==
    [t |-> "object", input_tokens_details |-> details, output_tokens |-> output]

\* the records the provider sends when all is well: four token counts
NumericUsages ==
    { Usage(Details(Num(a), Num(b), Num(c)), Num(d)) :
        a \in TokenCounts, b \in TokenCounts, c \in TokenCounts, d \in TokenCounts }

\* every way a field can be absent, null, a string, a boolean or a number
FieldShapes == {Undefined, Null, Str("12"), Bool(TRUE), Num(1)}

SparseUsages ==
    {Undefined, Null}
    \cup { Usage(d, o) : d \in {Undefined, Null}, o \in FieldShapes }
    \cup { Usage(Details(a, b, c), o) :
             a \in FieldShapes, b \in FieldShapes, c \in FieldShapes, o \in FieldShapes }

\* scenarios A and B of the specification
ScenarioA == Usage(Details(Num(100), Num(0), Num(0)), Num(10))
ScenarioB == Usage(Details(Num(50), Num(20), Num(30)), Num(0))
\* its boundary case: far more cached tokens than input tokens
ScenarioClamp == Usage(Details(Num(10), Num(0), Num(100)), Num(0))

Usages == NumericUsages \cup SparseUsages \cup {ScenarioA, ScenarioB, ScenarioClamp}

Init ==
    /\ usage \in Usages
    /\ model = Undefined
    /\ callee = "none"
    /\ result = Undefined
    /\ tracedCostUSD = Undefined
    /\ NoServer

\* one call of calculateApiCost of src/src/lib/cost-utils.ts
Estimate ==
    /\ callee = "none"
    /\ callee' = "cost-utils.ts"
    /\ result' = calculateApiCost(usage)
    /\ tracedCostUSD' = calculateApiCostFrame(usage).costUSD
    /\ UNCHANGED <<usage, model>>
    /\ UNCHANGED routeVars

Next == Estimate

Spec == Init /\ [][Next]_vars

(***************************************************************************)
(* The model-aware revision: records of its ApiUsage type carry no         *)
(* cached_tokens; the model argument may be omitted, recognised or not.    *)
(***************************************************************************)
UsagesByModel ==
    { Usage(Details(Num(a), Num(b), Undefined), Num(d)) :
        a \in TokenCounts, b \in TokenCounts, d \in TokenCounts }
    \cup SparseUsages

ModelArgs ==
    {Undefined, Null, Str("gpt-image-1"), Str("gpt-image-1-mini"),
     Str("gpt-image-1.5"), Str("dall-e-3")}

InitByModel ==
    /\ usage \in UsagesByModel
    /\ model \in ModelArgs
    /\ callee = "none"
    /\ result = Undefined
    /\ tracedCostUSD = Undefined
    /\ NoServer

\* one call of calculateApiCost of src/unnamed/part_000
EstimateByModel ==
    /\ callee = "none"
    /\ callee' = "part_000"
    /\ result' = calculateApiCostByModel(usage, model)
    /\ UNCHANGED <<usage, model, tracedCostUSD>>
    /\ UNCHANGED routeVars

\* either revision may be the one called with (usage, model); the current
\* one ignores the second argument
NextByModel == EstimateByModel \/ Estimate

SpecByModel == InitByModel /\ [][NextByModel]_vars

(***************************************************************************)
(* What the claims speak about: the call made, the argument's fields as    *)
(* the caller sees them, exact decimal amounts.                            *)
(***************************************************************************)
IsObject(v) == v.t = "object"

\* calculateApiCost of cost-utils.ts has returned / has returned a breakdown
Returned == callee = "cost-utils.ts"
Accepted == Returned /\ IsObject(result)

\* the fields of the argument, Undefined where the record has none
ArgDetails ==
    IF IsObject(usage) /\ IsObject(usage.input_tokens_details)
    THEN usage.input_tokens_details
    ELSE Details(Undefined, Undefined, Undefined)
ArgText == ArgDetails.text_tokens
ArgImage == ArgDetails.image_tokens
ArgCached == ArgDetails.cached_tokens
ArgOutput == IF IsObject(usage) THEN usage.output_tokens ELSE Undefined

\* the count a field stands for: its number, 0 otherwise
Count(v) == IF v.t = "number" THEN v.n ELSE 0

\* the argument carries numbers in all four fields
AllNumeric ==
    /\ ArgText.t = "number" /\ ArgImage.t = "number"
    /\ ArgCached.t = "number" /\ ArgOutput.t = "number"

\* the per-token rates in millionths of a dollar
InputRateMicroUsd == 8
CachedRateMicroUsd == 2
OutputRateMicroUsd == 32

\* the exact amount, in millionths of a dollar
MicroUsd(billable, cached, output) ==
    billable * InputRateMicroUsd + cached * CachedRateMicroUsd + output * OutputRateMicroUsd

\* x equals micro / 10^6 to the precision of a binary64 computation:
\* |x - micro / 10^6| <= (micro / 10^6) * 2^-50
EqualsToPrecision(x, micro) ==
    IF micro = 0 THEN x.man = <<>>
    ELSE /\ x.man # <<>> /\ x.sign = 1 /\ x.exp < 0
         /\ LET lhs  == NatMul(x.man, NatOfInt(1000000))
                rhs  == Shl(NatOfInt(micro), -x.exp)
                diff == IF NatCmp(lhs, rhs) >= 0 THEN NatSub(lhs, rhs) ELSE NatSub(rhs, lhs)
            IN  NatCmp(Shl(diff, 50), rhs) <= 0

\* a non-negative amount of millionths in ten-thousandths of a dollar, the
\* nearest one, a half rounding away from zero
HalfAwayFromZero(micro) == (micro + 50) \div 100

\* the number units * 0.0001
TenThousandths(units) == Literal(units, 10000)

(***************************************************************************)
(* C1: for every accepted record the cost before rounding is billable x    *)
(* input rate + cached x cached rate + output x output rate (to binary64   *)
(* precision); with no image and no cached tokens billable is text_tokens  *)
(* and the estimate is text x input rate + output x output rate rounded to *)
(* 4 decimals.                                                             *)
(***************************************************************************)
C1_CostFormula ==
    Accepted =>
        /\ EqualsToPrecision(tracedCostUSD,
                             MicroUsd(result.billable_input_tokens,
                                      result.cached_input_tokens,
                                      result.image_output_tokens))
        /\ (Count(ArgImage) = 0 /\ Count(ArgCached) = 0 =>
               /\ result.billable_input_tokens = Count(ArgText)
               /\ result.estimated_cost_usd =
                      TenThousandths(HalfAwayFromZero(
                          Count(ArgText) * InputRateMicroUsd
                          + Count(ArgOutput) * OutputRateMicroUsd)))

\* scenario A: 100 text and 10 output tokens cost 0.0011
C1_Witness ==
    /\ Accepted
    /\ usage = ScenarioA
    /\ result.billable_input_tokens = 100
    /\ result.estimated_cost_usd = TenThousandths(11)

(***************************************************************************)
(* C2: billable_input_tokens is max(text + image - cached, 0): never       *)
(* negative, 0 when cached exceeds text + image; a record with             *)
(* output_tokens = 0 is accepted.                                          *)
(***************************************************************************)
C2_Billable ==
    /\ Accepted =>
          LET pool == Count(ArgText) + Count(ArgImage) - Count(ArgCached)
          IN  /\ result.billable_input_tokens = (IF pool > 0 THEN pool ELSE 0)
              /\ result.billable_input_tokens >= 0
              /\ (Count(ArgCached) > Count(ArgText) + Count(ArgImage)
                    => result.billable_input_tokens = 0)
    /\ (Returned /\ AllNumeric /\ ArgOutput.n = 0 => Accepted)
    /\ (Returned /\ usage = ScenarioB => Accepted /\ result.billable_input_tokens = 40)

\* scenario B: 50 text, 20 image, 30 cached, no output tokens
C2_Witness ==
    /\ Accepted
    /\ usage = ScenarioB
    /\ result.image_output_tokens = 0
    /\ result.billable_input_tokens = 40

\* the reasons for rejection the claims name
UsageMissing == Nullish(usage)
DetailsMissing == IsObject(usage) /\ Nullish(usage.input_tokens_details)
OutputMissing == IsObject(usage) /\ ArgOutput.t = "undefined"
TokenFields == {ArgText, ArgImage, ArgCached, ArgOutput}
\* some token field is present and its value is not a number
FieldNotNumeric == \E v \in TokenFields : v.t \notin {"undefined", "number"}
\* some token field holds a value that is neither a number nor null
FieldOfOtherType == \E v \in TokenFields : v.t \notin {"undefined", "null", "number"}

\* the breakdown echoes the argument's counts, 0 for a field without one
EchoesWithDefaults ==
    /\ result.text_input_tokens = Count(ArgText)
    /\ result.image_input_tokens = Count(ArgImage)
    /\ result.cached_input_tokens = Count(ArgCached)
    /\ result.image_output_tokens = Count(ArgOutput)

(***************************************************************************)
(* C3 as stated: calculateApiCost never throws and returns null only when  *)
(* the usage object is missing, the output-token count is missing or a     *)
(* token field is present but not numeric; every other input, also one     *)
(* without input_tokens_details, gets a breakdown with defaulted fields.   *)
(***************************************************************************)
C3_Original ==
    Returned =>
        /\ result.t # "thrown"
        /\ (~(UsageMissing \/ OutputMissing \/ FieldNotNumeric)
              => IsObject(result) /\ EchoesWithDefaults)

(***************************************************************************)
(* C3 amended: calculateApiCost never throws and returns null only when    *)
(* the usage object is missing, input_tokens_details is missing, the       *)
(* output-token count is missing or a token field is present but not       *)
(* numeric; every other input gets a breakdown with defaulted fields.      *)
(***************************************************************************)
C3_Amended ==
    Returned =>
        /\ result.t # "thrown"
        /\ (~(UsageMissing \/ DetailsMissing \/ OutputMissing \/ FieldNotNumeric)
              => IsObject(result) /\ EchoesWithDefaults)

\* a usage object with output_tokens and no input_tokens_details is rejected
C3_Witness ==
    /\ Returned
    /\ DetailsMissing
    /\ ArgOutput.t = "number"
    /\ result.t = "null"

(***************************************************************************)
(* C4: for every model argument, a null or undefined usage and a usage     *)
(* whose output_tokens is undefined give null, in either revision.         *)
(***************************************************************************)
C4_InvalidUsage ==
    callee # "none" =>
        (UsageMissing \/ OutputMissing => result.t = "null")

\* { input_tokens_details: {}, output_tokens: undefined } with a model given
C4_Witness ==
    /\ callee = "part_000"
    /\ model = Str("gpt-image-1-mini")
    /\ IsObject(usage)
    /\ usage.input_tokens_details = Details(Undefined, Undefined, Undefined)
    /\ usage.output_tokens = Undefined
    /\ result.t = "null"

(***************************************************************************)
(* C5 as stated: a token field that is present with a value that is not a  *)
(* number (a string, null) makes calculateApiCost return null.             *)
(***************************************************************************)
C5_Original ==
    Returned /\ FieldNotNumeric => result.t = "null"

(***************************************************************************)
(* C5 amended: a token field holding a value that is neither a number nor  *)
(* null (a string, a boolean), and a null output_tokens, make              *)
(* calculateApiCost return null; a null text_tokens, image_tokens or       *)
(* cached_tokens is treated as an absent one and counts as 0.              *)
(***************************************************************************)
C5_Amended ==
    Returned =>
        /\ (FieldOfOtherType \/ ArgOutput.t = "null" => result.t = "null")
        /\ (/\ IsObject(usage) /\ IsObject(usage.input_tokens_details)
            /\ ArgOutput.t = "number"
            /\ ~FieldOfOtherType
            => IsObject(result) /\ EchoesWithDefaults)

\* a string in text_tokens, numbers elsewhere: rejected
C5_Witness ==
    /\ Returned
    /\ ArgText.t = "string"
    /\ ArgImage.t = "number" /\ ArgCached.t = "number" /\ ArgOutput.t = "number"
    /\ result.t = "null"

(***************************************************************************)
(* C6: with input_tokens_details present and output_tokens a number, an    *)
(* absent text_tokens, image_tokens or cached_tokens counts as 0: the      *)
(* breakdown echoes the supplied values or 0 and image_output_tokens       *)
(* echoes output_tokens; the record is not rejected.                       *)
(***************************************************************************)
C6_AbsentIsZero ==
    /\ Returned
    /\ IsObject(usage) /\ IsObject(usage.input_tokens_details)
    /\ ArgOutput.t = "number"
    /\ \A v \in {ArgText, ArgImage, ArgCached} : v.t \in {"undefined", "number"}
    => /\ IsObject(result)
       /\ EchoesWithDefaults
       /\ result.image_output_tokens = ArgOutput.n

\* { input_tokens_details: {}, output_tokens: 1 } is accepted with zeros
C6_Witness ==
    /\ Returned
    /\ IsObject(usage)
    /\ usage.input_tokens_details = Details(Undefined, Undefined, Undefined)
    /\ ArgOutput.t = "number"
    /\ IsObject(result)
    /\ result.text_input_tokens = 0
    /\ result.image_input_tokens = 0
    /\ result.cached_input_tokens = 0

\* the exact amount the breakdown's own counts come to
ResultMicroUsd ==
    MicroUsd(result.billable_input_tokens, result.cached_input_tokens,
             result.image_output_tokens)

(***************************************************************************)
(* C7: estimated_cost_usd is the exact cost rounded to the nearest         *)
(* multiple of 0.0001, a cost exactly halfway between two multiples        *)
(* rounded away from zero.                                                 *)
(***************************************************************************)
C7_HalfAwayFromZero ==
    Accepted =>
        result.estimated_cost_usd = TenThousandths(HalfAwayFromZero(ResultMicroUsd))

\* the estimate of a record of four counts
EstimateOf(text, image, cached, output) ==
    calculateApiCost(Usage(Details(Num(text), Num(image), Num(cached)), Num(output))).estimated_cost_usd

\* the estimate does not fall when the named field alone grows
MonotoneInText ==
    \A v \in TokenCounts : v > ArgText.n =>
        FLeq(result.estimated_cost_usd, EstimateOf(v, ArgImage.n, ArgCached.n, ArgOutput.n))
MonotoneInImage ==
    \A v \in TokenCounts : v > ArgImage.n =>
        FLeq(result.estimated_cost_usd, EstimateOf(ArgText.n, v, ArgCached.n, ArgOutput.n))
MonotoneInCached ==
    \A v \in TokenCounts : v > ArgCached.n =>
        FLeq(result.estimated_cost_usd, EstimateOf(ArgText.n, ArgImage.n, v, ArgOutput.n))
MonotoneInOutput ==
    \A v \in TokenCounts : v > ArgOutput.n =>
        FLeq(result.estimated_cost_usd, EstimateOf(ArgText.n, ArgImage.n, ArgCached.n, v))

(***************************************************************************)
(* C8 as stated: of two valid records that differ only in one token count  *)
(* (text, image, cached or output), the one with the larger count has an   *)
(* estimate at least as large.                                             *)
(***************************************************************************)
C8_Original ==
    Accepted /\ AllNumeric =>
        MonotoneInText /\ MonotoneInImage /\ MonotoneInCached /\ MonotoneInOutput

(***************************************************************************)
(* C8 amended: of two valid records that differ only in text_tokens,       *)
(* image_tokens or output_tokens, the one with the larger count has an     *)
(* estimate at least as large.                                             *)
(***************************************************************************)
C8_Amended ==
    Accepted /\ AllNumeric =>
        MonotoneInText /\ MonotoneInImage /\ MonotoneInOutput

\* a record whose estimate does grow with more output tokens
C8_Witness ==
    /\ Accepted /\ AllNumeric
    /\ \E v \in TokenCounts :
          /\ v > ArgOutput.n
          /\ FCmp(EstimateOf(ArgText.n, ArgImage.n, ArgCached.n, v),
                  result.estimated_cost_usd) = 1

(***************************************************************************)
(* C9: a record whose token counts are all non-negative numbers gets an    *)
(* estimated_cost_usd >= 0.                                                *)
(***************************************************************************)
C9_NonNegative ==
    Accepted /\ (\A v \in TokenFields : Count(v) >= 0) =>
        FLeq(FZero, result.estimated_cost_usd)

\* more cached tokens than input tokens: billable is 0, the estimate positive
C9_Witness ==
    /\ Accepted
    /\ usage = ScenarioClamp
    /\ result.billable_input_tokens = 0
    /\ FCmp(result.estimated_cost_usd, FZero) = 1

\* the model identifiers the estimator of part_000 knows
Recognised(m) ==
    IsModel(m, "gpt-image-1") \/ IsModel(m, "gpt-image-1-mini") \/ IsModel(m, "gpt-image-1.5")

(***************************************************************************)
(* C10: for a model identifier that is none of the recognised ones the     *)
(* model-aware calculateApiCost does not throw and returns what it returns *)
(* for the default model, the one used when the argument is omitted.       *)
(***************************************************************************)
C10_UnknownModelIsDefault ==
    callee = "part_000" /\ model.t = "string" /\ ~Recognised(model) =>
        /\ result.t # "thrown"
        /\ result = calculateApiCostByModel(usage, Undefined)

(***************************************************************************)
(* C11 as stated: the cache discount is taken from the text tokens only,   *)
(* so billable_input_tokens is never smaller than image_input_tokens.      *)
(***************************************************************************)
C11_Original ==
    Accepted => result.billable_input_tokens >= result.image_input_tokens

(***************************************************************************)
(* C11 amended: the cache discount is taken from the pool of text and      *)
(* image tokens: billable_input_tokens is never smaller than               *)
(* image_input_tokens while cached_tokens does not exceed text_tokens, and *)
(* it is smaller as soon as cached_tokens exceeds text_tokens and there    *)
(* are image tokens.                                                       *)
(***************************************************************************)
C11_Amended ==
    Accepted =>
        /\ (result.cached_input_tokens <= result.text_input_tokens
              => result.billable_input_tokens >= result.image_input_tokens)
        /\ (/\ result.cached_input_tokens > result.text_input_tokens
            /\ result.image_input_tokens > 0
            => result.billable_input_tokens < result.image_input_tokens)

\* cached tokens within the text tokens: all image tokens stay billable
C11_Witness ==
    /\ Accepted
    /\ result.cached_input_tokens > 0
    /\ result.cached_input_tokens <= result.text_input_tokens
    /\ result.image_input_tokens > 0
    /\ result.billable_input_tokens >= result.image_input_tokens

(***************************************************************************)
(* The server: the route handlers under src/src/app/api.  A server process *)
(* is started with an environment and a disk and handles one request; the  *)
(* environment's variables are unset or non-empty strings.                 *)
(***************************************************************************)

\* a || b
Or(a, b) == IF Not(a) THEN b ELSE a

\* Boolean(v)
Truthy(v) == ~Not(v)

\* sha256(data): the hex digest, for the two passwords of the model
sha256(data) ==
    IF data.s = "hunter2"
    THEN Str("f52fbd32b2b3b86ff88ef6c490628285f482af15ddcb29541f94bcf526a3f6c7")
    ELSE IF data.s = "letmein"
    THEN Str("1c8bfe8f801d79745c4631d09fff36c82aa37fc4cce4fc946683d7b336b63032")
    ELSE Str("e3b0c44298fc1c149afbf4c8996fb92427ae41e4649b934ca495991b7852b855")

\* the result of parseInt for a string that is no numeral
NaN == [t |-> "NaN"]

\* requests ask for 0..MaxN images
MaxN == 3

\* what parseInt reads at the start of the longer strings of the model: an
\* optional sign and the digits up to the first character that is no digit
LeadingInteger ==
    ("5" :> 5) @@ ("6" :> 6) @@ ("7" :> 7) @@ ("8" :> 8) @@ ("10" :> 10) @@
    ("11" :> 11) @@ ("12" :> 12) @@ ("100" :> 100) @@ ("-3" :> -3) @@
    ("10.5" :> 10) @@ ("4abc" :> 4)

\* parseInt(s, 10) for the strings of the model: decimal numerals, text that
\* starts with a numeral, or text that starts with no digit
parseInt(s) ==
    IF s.s \in DOMAIN LeadingInteger
    THEN Num(LeadingInteger[s.s])
    ELSE IF \E k \in 0 .. (MaxN + 1) : ToString(k) = s.s
    THEN Num(CHOOSE k \in 0 .. (MaxN + 1) : ToString(k) = s.s)
    ELSE NaN

\* a > b and a < b on numbers, false when either is NaN
Gt(a, b) == a.t = "number" /\ b.t = "number" /\ a.n > b.n
Lt(a, b) == a.t = "number" /\ b.t = "number" /\ a.n < b.n

\* a === b on numbers and strings
StrictEq(a, b) ==
    /\ a.t = b.t
    /\ a.t = "number" => a.n = b.n
    /\ a.t = "string" => a.s = b.s
    /\ a.t = "NaN" => FALSE

\* Math.min(a, b)
MathMin(a, b) ==
    IF a.t = "NaN" \/ b.t = "NaN" THEN NaN
    ELSE IF a.n <= b.n THEN a ELSE b

\* config of images/route.ts
config(e) ==
    [apiKey     |-> Or(e.AZURE_OPENAI_API_KEY, e.OPENAI_API_KEY),
     baseURL    |-> Or(e.AZURE_OPENAI_ENDPOINT, e.OPENAI_API_BASE_URL),
     deployment |-> Or(e.AZURE_OPENAI_DEPLOYMENT_NAME, Str("gpt-image-1.5"))]

useCustomEndpoint(e) == Truthy(e.AZURE_OPENAI_ENDPOINT)

imageGenerationHeaders(e) ==
    IF useCustomEndpoint(e)
    THEN [t |-> "object",
          api_key |-> config(e).apiKey,
          x_ms_oai_image_generation_deployment |-> config(e).deployment,
          api_version |-> Str("preview")]
    ELSE Undefined

apiClient(e) ==
    [apiKey         |-> config(e).apiKey,
     baseURL        |-> config(e).baseURL,
     defaultHeaders |-> imageGenerationHeaders(e)]

\* validateOutputFormat(format)
validateOutputFormat(format) ==
    LET normalized == IF Not(format) THEN "png" ELSE format.s
        mapped == IF normalized = "jpg" THEN "jpeg" ELSE normalized
    IN  IF mapped \in {"png", "jpeg", "webp"} THEN mapped ELSE "png"

\* the storage mode POST /api/images computes from the environment
effectiveStorageMode_VercelFirst(e) ==
    IF StrictEq(e.VERCEL, Str("1")) THEN "indexeddb"
    ELSE IF StrictEq(e.NEXT_PUBLIC_IMAGE_STORAGE_MODE, Str("indexeddb")) THEN "indexeddb"
    ELSE "fs"

effectiveStorageMode(e) ==
    LET explicitMode == e.NEXT_PUBLIC_IMAGE_STORAGE_MODE
        isOnVercel == StrictEq(e.VERCEL, Str("1"))
    IN  IF StrictEq(explicitMode, Str("fs")) THEN "fs"
        ELSE IF StrictEq(explicitMode, Str("indexeddb")) THEN "indexeddb"
        ELSE IF isOnVercel THEN "indexeddb"
        ELSE "fs"

\* what a handler did: entries of log
Mkdir == [op |-> "mkdir"]
WriteFile(f) == [op |-> "writeFile", file |-> f]
Upstream(call) == [op |-> "upstream", call |-> call]
Json(status, body) == [op |-> "json", status |-> status, body |-> body]
Open == [op |-> "stream"]
Enqueue(event) == [op |-> "enqueue", event |-> event]
Close == [op |-> "close"]

\* ensureOutputDirExists() on disk d: every way it can end.  fs.access
\* succeeds, fails with ENOENT (then fs.mkdir runs and succeeds or throws) or
\* fails otherwise (then it throws).
ensureOutputDirExists(d) ==
    IF d.dir
    THEN { [disk |-> d, did |-> <<>>, threw |-> FALSE],
           [disk |-> d, did |-> <<>>, threw |-> TRUE] }
    ELSE { [disk |-> [d EXCEPT !.dir = TRUE], did |-> <<Mkdir>>, threw |-> FALSE],
           [disk |-> d, did |-> <<>>, threw |-> TRUE] }

\* fs.writeFile(path.join(outputDir, f), buffer) on disk d: it creates or
\* replaces the file, or throws (always, when the directory is missing)
writeFile(d, f) ==
    (IF d.dir
     THEN { [disk |-> [d EXCEPT !.files = @ \cup {f}], did |-> <<WriteFile(f)>>, threw |-> FALSE] }
     ELSE {})
    \cup { [disk |-> d, did |-> <<>>, threw |-> TRUE] }

\* if (effectiveStorageMode === 'fs') await fs.writeFile(...): every way it
\* can end
persist_Never(d, mode, f) == { [disk |-> d, did |-> <<>>, threw |-> FALSE] }

persist(d, mode, f) ==
    IF mode = "fs"
    THEN writeFile(d, f)
    ELSE { [disk |-> d, did |-> <<>>, threw |-> FALSE] }

\* useStreaming of POST /api/images (line 143)
useStreaming_AnyN(partialImages, n) == Gt(partialImages, Num(0))

useStreaming(partialImages, n) == Gt(partialImages, Num(0)) /\ StrictEq(n, Num(1))

\* the password check of the handlers: the 401 it answers, or nothing
passwordCheck(e, clientPasswordHash) ==
    IF Truthy(e.APP_PASSWORD)
    THEN IF Not(clientPasswordHash)
         THEN <<Json(401, [error |-> "Unauthorized: Missing password hash."])>>
         ELSE IF ~StrictEq(clientPasswordHash, sha256(e.APP_PASSWORD))
         THEN <<Json(401, [error |-> "Unauthorized: Invalid password."])>>
         ELSE <<>>
    ELSE <<>>

(***************************************************************************)
(* Environments, disks and requests.                                       *)
(***************************************************************************)
Environment(password, azureKey, endpoint, deployment, version, openaiKey, storage, vercel) ==
    [APP_PASSWORD                   |-> password,
     AZURE_OPENAI_API_KEY           |-> azureKey,
     AZURE_OPENAI_ENDPOINT          |-> endpoint,
     AZURE_OPENAI_DEPLOYMENT_NAME   |-> deployment,
     AZURE_OPENAI_API_VERSION       |-> version,
     OPENAI_API_KEY                 |-> openaiKey,
     OPENAI_API_BASE_URL            |-> Undefined,
     NEXT_PUBLIC_IMAGE_STORAGE_MODE |-> storage,
     VERCEL                         |-> vercel]

Passwords == {Undefined, Str("hunter2")}
StorageModes == {Undefined, Str("fs"), Str("indexeddb"), Str("s3")}
VercelFlags == {Undefined, Str("1")}
AzureKeys == {Undefined, Str("azure-key")}
AzureEndpoints == {Undefined, Str("https://r.openai.azure.com/openai/v1")}
AzureDeployments == {Undefined, Str("my-image-deployment")}
AzureVersions == {Undefined, Str("2025-04-01-preview")}
OpenAIKeys == {Undefined, Str("sk-key")}

\* the environments of the storage and password questions: no credentials,
\* OpenAI credentials, or the full Azure configuration
Envs ==
    { Environment(p, Undefined, Undefined, Undefined, Undefined, k, s, v) :
        p \in Passwords, k \in OpenAIKeys, s \in StorageModes, v \in VercelFlags }
    \cup
    { Environment(p, Str("azure-key"), Str("https://r.openai.azure.com/openai/v1"),
                  Str("my-image-deployment"), Str("2025-04-01-preview"), Undefined, s, v) :
        p \in Passwords, s \in StorageModes, v \in VercelFlags }

\* the environments of the credentials question: every combination of the
\* Azure variables and the OpenAI key
CredentialEnvs ==
    { Environment(Undefined, a, e, d, v, k, Undefined, Str("1")) :
        a \in AzureKeys, e \in AzureEndpoints, d \in AzureDeployments,
        v \in AzureVersions, k \in OpenAIKeys }

\* file names: `${timestamp}-${index}.${extension}` for images and
\* `${jobId}-sora.mp4` for videos
FileName(stem, suffix, extension) ==
    [stem |-> stem, suffix |-> suffix, extension |-> extension]

\* the output directory exists or not; job1's video may be on disk already
Disks ==
    { [dir |-> FALSE, files |-> {}],
      [dir |-> TRUE, files |-> {}],
      [dir |-> TRUE, files |-> {FileName("job1", "sora", "mp4")}] }

\* what a client can send as passwordHash: nothing, an empty string, the
\* password itself, the digest of another password, the digest
PasswordHashes ==
    {Null, Str(""), Str("hunter2"), sha256(Str("letmein")), sha256(Str("hunter2"))}

\* the n field: absent, numerals, text
NFields == {Null, Str("many")} \cup { Str(ToString(k)) : k \in 0 .. MaxN }

\* the partial_images field
PartialFields == {Null, Str("0"), Str("2"), Str("some")}

ImagesRequest(hash, mode, prompt, n, partial, imageFiles) ==
    [route |-> "POST /api/images", passwordHash |-> hash, mode |-> mode, prompt |-> prompt,
     n |-> n, partial_images |-> partial, imageFiles |-> imageFiles, stream |-> Null,
     jobId |-> Null, size |-> Null, seconds |-> Null]

\* every combination of mode, n and partial_images with the right password;
\* every password with and without partial_images; missing mode or prompt
ImagesRequests ==
    { ImagesRequest(sha256(Str("hunter2")), m, Str("a cat"), n, pi, f) :
        m \in {Str("generate"), Str("edit")}, n \in NFields, pi \in PartialFields, f \in {0, 1} }
    \cup
    { ImagesRequest(h, Str("generate"), Str("a cat"), Null, pi, 0) :
        h \in PasswordHashes, pi \in {Null, Str("2")} }
    \cup
    { ImagesRequest(sha256(Str("hunter2")), m, p, Null, Null, 0) :
        m \in {Null, Str("generate")}, p \in {Null, Str("a cat")} }

\* the handler's locals before it runs
NoLocals ==
    [effectiveStorageMode |-> "unset", n |-> NaN, partialImages |-> NaN,
     useStreaming |-> FALSE, i |-> 0, savedImagesData |-> <<>>,
     finalImageB64 |-> FALSE, partialImageCount |-> 0, events |-> 0,
     completedImages |-> <<>>, imageIndex |-> 0, statusJson |-> [t |-> "none"],
     timestamp |-> 0]

NoRequest ==
    [route |-> "none", passwordHash |-> Null, mode |-> Null, prompt |-> Null, n |-> Null,
     partial_images |-> Null, imageFiles |-> 0, stream |-> Null, jobId |-> Null, size |-> Null,
     seconds |-> Null]

\* Date.now() when the request is handled
timestamp == "1767225600000"

\* the estimator is out of the picture
NoEstimate ==
    /\ usage = Undefined
    /\ model = Undefined
    /\ callee = "none"
    /\ result = Undefined
    /\ tracedCostUSD = Undefined

InitRoutes ==
    /\ NoEstimate
    /\ env \in Envs
    /\ disk \in Disks
    /\ req = NoRequest
    /\ pc = "listening"
    /\ loc = NoLocals
    /\ log = <<>>

\* the handler's last steps: nothing of the request is left to do
Respond(entries) ==
    /\ log' = log \o entries
    /\ pc' = "finished"

(***************************************************************************)
(* POST /api/images (src/src/app/api/images/route.ts)                      *)
(***************************************************************************)
ReceiveImages ==
    /\ pc = "listening"
    /\ \E r \in ImagesRequests : req' = r
    /\ pc' = "images: start"
    /\ UNCHANGED <<env, disk, loc, log>>
    /\ UNCHANGED costVars

\* lines 90-115: the key check, the storage mode, the output directory
ImagesPrepare ==
    /\ pc = "images: start"
    /\ IF Not(config(env).apiKey)
       THEN /\ Respond(<<Json(500, [error |-> "Server configuration error: API key not found."])>>)
            /\ UNCHANGED <<disk, loc>>
       ELSE LET mode == effectiveStorageMode(env) IN
            /\ loc' = [loc EXCEPT !.effectiveStorageMode = mode]
            /\ IF mode = "fs"
               THEN \E o \in ensureOutputDirExists(disk) :
                        /\ disk' = o.disk
                        /\ IF o.threw
                           THEN Respond(o.did \o <<Json(500, [error |-> "Failed to access or ensure image output directory exists."])>>)
                           ELSE /\ log' = log \o o.did
                                /\ pc' = "images: form"
               ELSE /\ pc' = "images: form"
                    /\ UNCHANGED <<disk, log>>
    /\ UNCHANGED <<env, req>>
    /\ UNCHANGED costVars

\* lines 117-191: the password, the required fields, n and partial_images,
\* the images of an edit
ImagesValidate ==
    /\ pc = "images: form"
    /\ LET denied == passwordCheck(env, req.passwordHash)
           n == parseInt(Or(req.n, Str("1")))
           partialImages == parseInt(Or(req.partial_images, Str("0")))
           streaming == useStreaming(partialImages, n)
       IN  IF denied # <<>>
           THEN Respond(denied) /\ UNCHANGED loc
           ELSE IF Not(req.mode) \/ Not(req.prompt)
           THEN /\ Respond(<<Json(400, [error |-> "Missing required parameters: mode and prompt"])>>)
                /\ UNCHANGED loc
           ELSE IF StrictEq(req.mode, Str("edit")) /\ req.imageFiles = 0
           THEN /\ Respond(<<Json(400, [error |-> "No image file provided for editing."])>>)
                /\ loc' = [loc EXCEPT !.n = n, !.partialImages = partialImages,
                                      !.useStreaming = streaming]
           ELSE /\ loc' = [loc EXCEPT !.n = n, !.partialImages = partialImages,
                                      !.useStreaming = streaming]
                /\ pc' = IF streaming THEN "images: stream" ELSE "images: loop"
                /\ UNCHANGED log
    /\ UNCHANGED <<env, disk, req>>
    /\ UNCHANGED costVars

\* `/api/image/${filename}`
ImagePath(filename) == [t |-> "string", prefix |-> "/api/image/", filename |-> filename]

\* the image_generation tool of the request (lines 146-154)
imageGenTool(l) ==
    [type |-> "image_generation",
     partial_images |-> IF l.useStreaming THEN l.partialImages ELSE Undefined]

\* apiClient.responses.create(...) of POST /api/images
ResponsesCreate(e, l, stream) ==
    Upstream([by |-> "POST /api/images", client |-> apiClient(e), model |-> "gpt-5.2-chat",
              tool |-> imageGenTool(l), stream |-> stream])

\* an entry of savedImagesData or of the 'done' event's images
SavedImage(filename, extension, mode) ==
    [filename |-> filename, output_format |-> extension,
     path |-> IF mode = "fs" THEN ImagePath(filename) ELSE Undefined]

\* the events of the SSE stream
PartialImageEvent_IndexZero(index, partialIndex) ==
    [type |-> "partial_image", index |-> 0, partial_image_index |-> partialIndex]

PartialImageEvent(index, partialIndex) ==
    [type |-> "partial_image", index |-> index, partial_image_index |-> partialIndex]
CompletedEvent(index, filename, extension, path) ==
    [type |-> "completed", index |-> index, filename |-> filename,
     output_format |-> extension, path |-> path]
DoneEvent(images) == [type |-> "done", images |-> images]
ErrorEvent(error) == [type |-> "error", error |-> error]

\* what the provider's stream can yield: partial images with or without
\* data and index, finished output items with or without an image, the end
\* of the response
ResponseEvents ==
    { [type |-> "response.image_generation_call.partial_image", b64 |-> TRUE, index |-> Undefined],
      [type |-> "response.image_generation_call.partial_image", b64 |-> TRUE, index |-> Num(7)],
      [type |-> "response.image_generation_call.partial_image", b64 |-> FALSE, index |-> Undefined],
      [type |-> "response.output_item.done", b64 |-> TRUE, index |-> Undefined],
      [type |-> "response.output_item.done", b64 |-> FALSE, index |-> Undefined],
      [type |-> "response.completed", b64 |-> FALSE, index |-> Undefined] }

\* the provider's stream yields at most MaxEvents events
MaxEvents == 3

\* the loop of the non-streaming branch runs Math.min(n, 10) times
MaxImagesPerRequest == 10

\* lines 198-206 and 286-292: the stream is made, its start callback calls
\* the provider, the Response is returned; the call succeeds or throws
ImagesStreamStart ==
    /\ pc = "images: stream"
    /\ \/ /\ log' = log \o <<ResponsesCreate(env, loc, TRUE), Open>>
          /\ pc' = "images: events"
       \/ /\ log' = log \o <<ResponsesCreate(env, loc, TRUE), Open,
                             Enqueue(ErrorEvent("thrown by the provider")), Close>>
          /\ pc' = "finished"
    /\ UNCHANGED <<env, disk, req, loc>>
    /\ UNCHANGED costVars

\* lines 213-238: one event of the provider's stream
ImagesStreamEvent ==
    /\ pc = "images: events"
    /\ loc.events < MaxEvents
    /\ \E event \in ResponseEvents :
          IF event.type = "response.image_generation_call.partial_image"
          THEN IF event.b64
               THEN /\ log' = log \o <<Enqueue(PartialImageEvent(0,
                                         Coalesce(event.index, Num(loc.partialImageCount))))>>
                    /\ loc' = [loc EXCEPT !.partialImageCount = @ + 1, !.events = @ + 1]
               ELSE /\ loc' = [loc EXCEPT !.events = @ + 1]
                    /\ UNCHANGED log
          ELSE IF event.type = "response.output_item.done"
          THEN /\ loc' = [loc EXCEPT !.finalImageB64 = IF event.b64 THEN TRUE ELSE @,
                                     !.events = @ + 1]
               /\ UNCHANGED log
          ELSE /\ loc' = [loc EXCEPT !.events = @ + 1]
               /\ UNCHANGED log
    /\ pc' = pc
    /\ UNCHANGED <<env, disk, req>>
    /\ UNCHANGED costVars

\* lines 275-282: the provider's stream throws
ImagesStreamThrows ==
    /\ pc = "images: events"
    /\ log' = log \o <<Enqueue(ErrorEvent("thrown by the provider")), Close>>
    /\ pc' = "finished"
    /\ UNCHANGED <<env, disk, req, loc>>
    /\ UNCHANGED costVars

\* lines 240-274: the provider's stream ends
ImagesStreamEnd ==
    /\ pc = "images: events"
    /\ LET extension == validateOutputFormat(Undefined)
           filename == FileName(timestamp, ToString(0), extension)
           report == <<Enqueue(CompletedEvent(0, filename, extension, Undefined)),
                       Enqueue(DoneEvent(<<SavedImage(filename, extension, loc.effectiveStorageMode)>>)),
                       Close>>
       IN  IF loc.finalImageB64
           THEN \E o \in persist(disk, loc.effectiveStorageMode, filename) :
                   /\ disk' = o.disk
                   /\ IF o.threw
                      THEN log' = log \o <<Enqueue(ErrorEvent("thrown by writeFile")), Close>>
                      ELSE log' = log \o o.did \o report
           ELSE /\ log' = log \o <<Enqueue(ErrorEvent("No image was generated")), Close>>
                /\ UNCHANGED disk
    /\ pc' = "finished"
    /\ UNCHANGED <<env, req, loc>>
    /\ UNCHANGED costVars

\* lines 304-333: one round of the loop: the provider is called and answers
\* with an image, without one, or the call throws
ImagesGenerate ==
    /\ pc = "images: loop"
    /\ Lt(Num(loc.i), MathMin(loc.n, Num(MaxImagesPerRequest)))
    /\ LET extension == validateOutputFormat(Undefined)
           filename == FileName(timestamp, ToString(loc.i), extension)
           call == ResponsesCreate(env, loc, FALSE)
           saved == [loc EXCEPT !.i = @ + 1,
                                !.savedImagesData = Append(@, SavedImage(filename, extension,
                                                                loc.effectiveStorageMode))]
       IN  \/ /\ Respond(<<call, Json(500, [error |-> "thrown by the provider"])>>)
              /\ UNCHANGED <<disk, loc>>
           \/ /\ log' = log \o <<call>>
              /\ loc' = [loc EXCEPT !.i = @ + 1]
              /\ pc' = pc
              /\ UNCHANGED disk
           \/ \E o \in persist(disk, loc.effectiveStorageMode, filename) :
                 /\ disk' = o.disk
                 /\ IF o.threw
                    THEN /\ Respond(<<call, Json(500, [error |-> "thrown by writeFile"])>>)
                         /\ UNCHANGED loc
                    ELSE /\ log' = log \o <<call>> \o o.did
                         /\ loc' = saved
                         /\ pc' = pc
    /\ UNCHANGED <<env, req>>
    /\ UNCHANGED costVars

\* lines 335-339: the loop is over
ImagesRespond ==
    /\ pc = "images: loop"
    /\ ~Lt(Num(loc.i), MathMin(loc.n, Num(MaxImagesPerRequest)))
    /\ IF loc.savedImagesData = <<>>
       THEN Respond(<<Json(500, [error |-> "Failed to generate any images."])>>)
       ELSE Respond(<<Json(200, [images |-> loc.savedImagesData])>>)
    /\ UNCHANGED <<env, disk, req, loc>>
    /\ UNCHANGED costVars

NextImages ==
    \/ ReceiveImages
    \/ ImagesPrepare
    \/ ImagesValidate
    \/ ImagesStreamStart
    \/ ImagesStreamEvent
    \/ ImagesStreamThrows
    \/ ImagesStreamEnd
    \/ ImagesGenerate
    \/ ImagesRespond

(***************************************************************************)
(* POST and GET /api/video (src/src/app/api/video/route.ts)                *)
(***************************************************************************)
\* config of video/route.ts
videoConfig(e) ==
    [apiKey  |-> Or(e.AZURE_OPENAI_API_KEY, e.OPENAI_API_KEY),
     baseURL |-> Or(e.AZURE_OPENAI_ENDPOINT, e.OPENAI_API_BASE_URL)]

validSizes == {"1280x720", "720x1280"}

\* fetch(...) of video/route.ts
Fetch(by, method, url) ==
    Upstream([by |-> by, method |-> method, url |-> url])

\* the seconds field: absent, empty, the allowed values, other integers,
\* text, a fraction, a numeral followed by text
SecondsFields ==
    {Null, Str(""), Str("abc"), Str("10.5"), Str("4abc"), Str("-3"), Str("100")}
    \cup { Str(ToString(k)) : k \in {0, 4, 5, 6, 7, 8, 10, 11, 12} }

\* every password, prompt and size without seconds; every seconds field in
\* a request that is accepted
VideoPostRequests ==
    { [NoRequest EXCEPT !.route = "POST /api/video", !.passwordHash = h,
                        !.prompt = p, !.size = z] :
        h \in PasswordHashes, p \in {Null, Str("a cat")},
        z \in {Null, Str("720x1280"), Str("640x480")} }
    \cup
    { [NoRequest EXCEPT !.route = "POST /api/video", !.passwordHash = sha256(Str("hunter2")),
                        !.prompt = Str("a cat"), !.seconds = x] :
        x \in SecondsFields }

allowedSeconds == <<4, 8, 12>>

Abs(x) == IF x < 0 THEN -x ELSE x

\* the callback of the reduce at line 126: curr when it is nearer to
\* secondsInput than prev; with NaN no comparison holds
Closer_OnTie(prev, curr, secondsInput) ==
    IF secondsInput.t = "number" /\ Abs(curr - secondsInput.n) <= Abs(prev - secondsInput.n)
    THEN curr ELSE prev

Closer(prev, curr, secondsInput) ==
    IF secondsInput.t = "number" /\ Abs(curr - secondsInput.n) < Abs(prev - secondsInput.n)
    THEN curr ELSE prev

\* list.reduce(Closer, prev)
RECURSIVE Reduce(_, _, _)
Reduce(list, prev, secondsInput) ==
    IF list = <<>> THEN prev
    ELSE Reduce(Tail(list), Closer(prev, Head(list), secondsInput), secondsInput)

\* lines 122-126: the seconds POST /api/video forwards for a seconds field
seconds(field) ==
    LET secondsInput == parseInt(Or(field, Str("8")))
    IN  IF secondsInput.t = "number" /\ \E k \in 1 .. Len(allowedSeconds) : allowedSeconds[k] = secondsInput.n
        THEN secondsInput.n
        ELSE Reduce(allowedSeconds, 8, secondsInput)

\* the fetch of lines 169-175 with the form of lines 160-167
VideoCreate(r) ==
    Upstream([by |-> "POST /api/video", method |-> "POST", url |-> "/videos",
              size |-> Or(r.size, Str("1280x720")).s, seconds |-> ToString(seconds(r.seconds))])

VideoGetRequests ==
    { [NoRequest EXCEPT !.route = "GET /api/video", !.passwordHash = h, !.jobId = j] :
        h \in PasswordHashes, j \in {Null, Str("job1")} }

ReceiveVideo ==
    /\ pc = "listening"
    /\ \/ \E r \in VideoPostRequests : req' = r /\ pc' = "video POST: start"
       \/ \E r \in VideoGetRequests : req' = r /\ pc' = "video GET: start"
    /\ UNCHANGED <<env, disk, loc, log>>
    /\ UNCHANGED costVars

\* POST, lines 99-105: the credentials, the output directory
VideoPostPrepare ==
    /\ pc = "video POST: start"
    /\ IF Not(videoConfig(env).apiKey) \/ Not(videoConfig(env).baseURL)
       THEN /\ Respond(<<Json(500, [error |-> "Server configuration error: API credentials are incomplete."])>>)
            /\ UNCHANGED disk
       ELSE \E o \in ensureOutputDirExists(disk) :
               /\ disk' = o.disk
               /\ IF o.threw
                  THEN Respond(o.did \o <<Json(500, [error |-> "Failed to access output directory"])>>)
                  ELSE /\ log' = log \o o.did
                       /\ pc' = "video POST: form"
    /\ UNCHANGED <<env, req, loc>>
    /\ UNCHANGED costVars

\* POST, lines 107-196: the password, the fields, the job's creation
VideoPostSubmit ==
    /\ pc = "video POST: form"
    /\ LET denied == passwordCheck(env, req.passwordHash)
           size == Or(req.size, Str("1280x720"))
           create == VideoCreate(req)
       IN  IF denied # <<>>
           THEN Respond(denied)
           ELSE IF Not(req.prompt)
           THEN Respond(<<Json(400, [error |-> "Prompt is required."])>>)
           ELSE IF size.s \notin validSizes
           THEN Respond(<<Json(400, [error |-> "Invalid size. Supported sizes are 1280x720 and 720x1280."])>>)
           ELSE \/ Respond(<<create, Json(200, [jobId |-> "job1", status |-> "running"])>>)
                \/ Respond(<<create, Json(500, [error |-> "Video creation did not return a job id."])>>)
                \/ Respond(<<create, Json(429, [error |-> "Video creation failed"])>>)
                \/ Respond(<<create, Json(500, [error |-> "thrown by fetch"])>>)
    /\ UNCHANGED <<env, disk, req, loc>>
    /\ UNCHANGED costVars

\* the status field of the provider's answer: absent, empty, the job states
\* in several spellings
JobStatuses ==
    {Undefined, Str(""), Str("queued"), Str("in_progress"), Str("Running"),
     Str("NOTSTARTED"), Str("processing"), Str("succeeded"), Str("Completed"),
     Str("failed"), Str("Cancelled")}

\* String.prototype.toLowerCase for the strings of the model
toLowerCase(v) ==
    IF v.s = "Running" THEN Str("running")
    ELSE IF v.s = "NOTSTARTED" THEN Str("notstarted")
    ELSE IF v.s = "Completed" THEN Str("completed")
    ELSE IF v.s = "Cancelled" THEN Str("cancelled")
    ELSE v

\* the condition of line 222: there is no status or the job is not over
notOver_ButProcessing(status) ==
    \/ Not(status)
    \/ status.s \in {"queued", "in_progress", "running", "notstarted"}

notOver(status) ==
    \/ Not(status)
    \/ status.s \in {"queued", "in_progress", "running", "notstarted", "processing"}

\* GET, lines 205-224 and 256-262: the credentials, the job id, the job's
\* status
VideoGetPoll ==
    /\ pc = "video GET: start"
    /\ LET poll == Fetch("GET /api/video", "GET", "/videos/job1") IN
       IF Not(videoConfig(env).apiKey) \/ Not(videoConfig(env).baseURL)
       THEN /\ Respond(<<Json(500, [error |-> "Server configuration error: API credentials are incomplete."])>>)
            /\ UNCHANGED loc
       ELSE IF Not(req.jobId)
       THEN /\ Respond(<<Json(400, [error |-> "jobId is required."])>>)
            /\ UNCHANGED loc
       ELSE \/ /\ Respond(<<poll, Json(500, [error |-> "Failed to poll video status"])>>)
               /\ UNCHANGED loc
            \/ \E statusJson \in JobStatuses :
                 LET status == IF Nullish(statusJson) THEN Undefined ELSE toLowerCase(statusJson) IN
                 /\ loc' = [loc EXCEPT !.statusJson = statusJson]
                 /\ IF notOver(status)
                    THEN Respond(<<poll, Json(200, [status |-> Or(status, Str("queued")).s])>>)
                    ELSE IF status.s \in {"succeeded", "completed"}
                    THEN /\ log' = log \o <<poll>>
                         /\ pc' = "video GET: download"
                    ELSE Respond(<<poll, Json(500, [status |-> status.s,
                                      error |-> "Video generation did not complete successfully."])>>)
    /\ UNCHANGED <<env, disk, req>>
    /\ UNCHANGED costVars

\* downloadVideo(jobId, baseUrl) on disk d, lines 71-96: every way it can end
downloadVideo(d, filename) ==
    LET download == Fetch("GET /api/video", "GET", "/videos/job1/content?variant=video") IN
    { [disk |-> d, did |-> <<download>>, threw |-> TRUE] }
    \cup
    UNION { IF e.threw
            THEN { [disk |-> e.disk, did |-> <<download>> \o e.did, threw |-> TRUE] }
            ELSE { [disk |-> w.disk, did |-> <<download>> \o e.did \o w.did, threw |-> w.threw] :
                     w \in writeFile(e.disk, filename) }
          : e \in ensureOutputDirExists(d) }

\* GET, lines 226-254: the finished job's video is downloaded unless it is
\* on disk
VideoGetDownload ==
    /\ pc = "video GET: download"
    /\ LET filename == FileName(req.jobId.s, "sora", "mp4")
           answer == Json(200, [status |-> "succeeded",
                                videos |-> <<[filename |-> filename, path |-> ImagePath(filename)]>>])
           failure == Json(500, [error |-> "Failed to download completed video."])
       IN  \E e \in ensureOutputDirExists(disk) :
              IF e.threw
              THEN /\ disk' = e.disk
                   /\ Respond(e.did \o <<failure>>)
              ELSE IF filename \in e.disk.files
              THEN /\ disk' = e.disk
                   /\ Respond(e.did \o <<answer>>)
              ELSE \E o \in downloadVideo(e.disk, filename) :
                      /\ disk' = o.disk
                      /\ Respond(e.did \o o.did \o <<IF o.threw THEN failure ELSE answer>>)
    /\ UNCHANGED <<env, req, loc>>
    /\ UNCHANGED costVars

(***************************************************************************)
(* POST /api/prompt-enhance (src/src/app/api/prompt-enhance/route.ts)      *)
(***************************************************************************)
\* useAzure of prompt-enhance/route.ts: the deployment falls back to the
\* model's name, which is never empty
enhanceUseAzure(e) ==
    /\ Truthy(e.AZURE_OPENAI_API_KEY)
    /\ Truthy(e.AZURE_OPENAI_ENDPOINT)
    /\ Truthy(e.AZURE_OPENAI_API_VERSION)

EnhanceRequests ==
    { [NoRequest EXCEPT !.route = "POST /api/prompt-enhance", !.passwordHash = h,
                        !.prompt = p, !.mode = m] :
        h \in PasswordHashes, p \in {Null, Str("a cat")}, m \in {Null, Str("generate")} }

ReceiveEnhance ==
    /\ pc = "listening"
    /\ \E r \in EnhanceRequests : req' = r
    /\ pc' = "enhance: start"
    /\ UNCHANGED <<env, disk, loc, log>>
    /\ UNCHANGED costVars

\* lines 80-155: the credentials, the fields, the password, the completion
Enhance ==
    /\ pc = "enhance: start"
    /\ LET denied == passwordCheck(env, req.passwordHash)
           completion == Upstream([by |-> "POST /api/prompt-enhance",
                                   azure |-> enhanceUseAzure(env)])
       IN  IF ~enhanceUseAzure(env) /\ Not(env.OPENAI_API_KEY)
           THEN Respond(<<Json(500, [error |-> "Server configuration error: API key not found."])>>)
           ELSE IF Not(req.prompt) \/ Not(req.mode)
           THEN Respond(<<Json(400, [error |-> "Missing required parameters: prompt and mode."])>>)
           ELSE IF denied # <<>>
           THEN Respond(denied)
           ELSE \/ Respond(<<completion, Json(200, [prompt |-> "a fluffy cat"])>>)
                \/ Respond(<<completion, Json(502, [error |-> "Failed to enhance prompt."])>>)
                \/ Respond(<<completion, Json(500, [error |-> "thrown by the provider"])>>)
    /\ UNCHANGED <<env, disk, req, loc>>
    /\ UNCHANGED costVars

NextRoutes ==
    \/ NextImages
    \/ ReceiveVideo
    \/ VideoPostPrepare
    \/ VideoPostSubmit
    \/ VideoGetPoll
    \/ VideoGetDownload
    \/ ReceiveEnhance
    \/ Enhance

SpecRoutes == InitRoutes /\ [][NextRoutes]_vars

(***************************************************************************)
(* POST /api/images of src/unnamed/part_003: the revision that streams     *)
(* through the Images API, several images per stream.                      *)
(***************************************************************************)
\* useAzure of part_003
useAzure(e) ==
    /\ Truthy(e.AZURE_OPENAI_API_KEY)
    /\ Truthy(e.AZURE_OPENAI_ENDPOINT)
    /\ Truthy(e.AZURE_OPENAI_API_VERSION)
    /\ Truthy(e.AZURE_OPENAI_DEPLOYMENT_NAME)

\* apiClient of part_003
imagesClient(e) ==
    IF useAzure(e)
    THEN [apiKey |-> e.AZURE_OPENAI_API_KEY, baseURL |-> e.AZURE_OPENAI_ENDPOINT,
          defaultHeaders |-> Undefined]
    ELSE [apiKey |-> e.OPENAI_API_KEY, baseURL |-> e.OPENAI_API_BASE_URL,
          defaultHeaders |-> Undefined]

\* Math.max(lo, Math.min(v || dflt, hi)) on a parsed number
Clamp(v, dflt, lo, hi) ==
    LET w == IF v.t = "NaN" \/ v.n = 0 THEN dflt ELSE v.n
    IN  MathMax(lo, IF w <= hi THEN w ELSE hi)

\* apiClient.images.generate(...) or .edit(...) of part_003
ImagesCall(e, r, stream) ==
    Upstream([by |-> "POST /api/images", client |-> imagesClient(e),
              model |-> IF useAzure(e) THEN e.AZURE_OPENAI_DEPLOYMENT_NAME.s ELSE "gpt-image-1.5",
              n |-> Clamp(parseInt(Or(r.n, Str("1"))), 1, 1, MaxImagesPerRequest),
              tool |-> [type |-> r.mode.s,
                        partial_images |->
                            IF stream
                            THEN Num(MathMax(1, MathMin(parseInt(Or(r.partial_images, Str("2"))), Num(3)).n))
                            ELSE Undefined],
              stream |-> stream])

StreamedRequests ==
    { [ImagesRequest(sha256(Str("hunter2")), m, Str("a cat"), n, pi, f) EXCEPT !.stream = st] :
        m \in {Str("generate"), Str("edit")}, n \in NFields, pi \in {Null, Str("2")},
        f \in {0, 1}, st \in {Null, Str("true")} }
    \cup
    { [ImagesRequest(h, m, Str("a cat"), Null, Null, 0) EXCEPT !.stream = Str("true")] :
        h \in PasswordHashes, m \in {Null, Str("generate"), Str("variation")} }

ReceiveStreamed ==
    /\ pc = "listening"
    /\ \E r \in StreamedRequests : req' = r
    /\ pc' = "part_003: start"
    /\ UNCHANGED <<env, disk, loc, log>>
    /\ UNCHANGED costVars

\* part_003 lines 128-161: the credentials, the storage mode, the output
\* directory
StreamedPrepare ==
    /\ pc = "part_003: start"
    /\ IF ~useAzure(env) /\ Not(env.OPENAI_API_KEY)
       THEN /\ Respond(<<Json(500, [error |-> "Server configuration error: API key not found."])>>)
            /\ UNCHANGED <<disk, loc>>
       ELSE LET mode == effectiveStorageMode(env) IN
            /\ loc' = [loc EXCEPT !.effectiveStorageMode = mode]
            /\ IF mode = "fs"
               THEN \E o \in ensureOutputDirExists(disk) :
                        /\ disk' = o.disk
                        /\ IF o.threw
                           THEN Respond(o.did \o <<Json(500, [error |-> "Failed to access or ensure image output directory exists."])>>)
                           ELSE /\ log' = log \o o.did
                                /\ pc' = "part_003: form"
               ELSE /\ pc' = "part_003: form"
                    /\ UNCHANGED <<disk, log>>
    /\ UNCHANGED <<env, req>>
    /\ UNCHANGED costVars

\* part_003 lines 163-230 and 322-357: the password, the fields, the mode;
\* a streamed request calls the provider here, before the stream is made
StreamedValidate ==
    /\ pc = "part_003: form"
    /\ LET denied == passwordCheck(env, req.passwordHash)
           streamEnabled == StrictEq(req.stream, Str("true"))
       IN  IF denied # <<>>
           THEN Respond(denied)
           ELSE IF Not(req.mode) \/ Not(req.prompt)
           THEN Respond(<<Json(400, [error |-> "Missing required parameters: mode and prompt"])>>)
           ELSE IF req.mode.s \notin {"generate", "edit"}
           THEN Respond(<<Json(400, [error |-> "Invalid mode specified"])>>)
           ELSE IF req.mode.s = "edit" /\ req.imageFiles = 0
           THEN Respond(<<Json(400, [error |-> "No image file provided for editing."])>>)
           ELSE IF streamEnabled
           THEN \/ /\ log' = log \o <<ImagesCall(env, req, TRUE), Open>>
                   /\ pc' = "part_003: events"
                \/ Respond(<<ImagesCall(env, req, TRUE), Json(500, [error |-> "thrown by the provider"])>>)
           ELSE /\ pc' = "part_003: call"
                /\ UNCHANGED log
    /\ UNCHANGED <<env, disk, req, loc>>
    /\ UNCHANGED costVars

\* what the Images API's stream yields: partial images and completed
\* images, each with its b64_json
ImageStreamEvents ==
    { [type |-> "partial_image", partial_image_index |-> Num(0)],
      [type |-> "partial_image", partial_image_index |-> Num(1)],
      [type |-> "completed", partial_image_index |-> Undefined] }

\* part_003 lines 248-291 and 375-418: one event of the provider's stream
StreamedEvent ==
    /\ pc = "part_003: events"
    /\ loc.events < MaxEvents
    /\ \E event \in ImageStreamEvents :
          IF event.type = "partial_image"
          THEN /\ log' = log \o <<Enqueue(PartialImageEvent(loc.imageIndex,
                                                            event.partial_image_index))>>
               /\ loc' = [loc EXCEPT !.events = @ + 1]
               /\ pc' = pc
               /\ UNCHANGED disk
          ELSE LET extension == IF req.mode.s = "edit" THEN "png" ELSE validateOutputFormat(Undefined)
                   filename == FileName(timestamp, ToString(loc.imageIndex), extension)
                   image == SavedImage(filename, extension, loc.effectiveStorageMode)
               IN  \E o \in persist(disk, loc.effectiveStorageMode, filename) :
                      /\ disk' = o.disk
                      /\ IF o.threw
                         THEN /\ log' = log \o <<Enqueue(ErrorEvent("thrown by writeFile")), Close>>
                              /\ pc' = "finished"
                              /\ UNCHANGED loc
                         ELSE /\ log' = log \o o.did \o
                                     <<Enqueue(CompletedEvent(loc.imageIndex, filename, extension, image.path))>>
                              /\ loc' = [loc EXCEPT !.completedImages = Append(@, image),
                                                    !.imageIndex = @ + 1,
                                                    !.events = @ + 1]
                              /\ pc' = pc
    /\ UNCHANGED <<env, req>>
    /\ UNCHANGED costVars

\* part_003 lines 300-307 and 427-434: the provider's stream throws
StreamedThrows ==
    /\ pc = "part_003: events"
    /\ log' = log \o <<Enqueue(ErrorEvent("thrown by the provider")), Close>>
    /\ pc' = "finished"
    /\ UNCHANGED <<env, disk, req, loc>>
    /\ UNCHANGED costVars

\* part_003 lines 293-299 and 420-426: the provider's stream ends
StreamedEnd_NoClose ==
    /\ pc = "part_003: events"
    /\ log' = log \o <<Enqueue(DoneEvent(loc.completedImages))>>
    /\ pc' = "finished"
    /\ UNCHANGED <<env, disk, req, loc>>
    /\ UNCHANGED costVars

StreamedEnd ==
    /\ pc = "part_003: events"
    /\ log' = log \o <<Enqueue(DoneEvent(loc.completedImages)), Close>>
    /\ pc' = "finished"
    /\ UNCHANGED <<env, disk, req, loc>>
    /\ UNCHANGED costVars

\* the images a result of k images becomes, in order
SavedImages(k, extension, mode) ==
    [ j \in 1 .. k |-> SavedImage(FileName(timestamp, ToString(j - 1), extension), extension, mode) ]

\* part_003 lines 320-321 and 447-495: one call of the provider for all
\* images; the files are written side by side, and the first failure
\* answers for all
StreamedGenerate ==
    /\ pc = "part_003: call"
    /\ LET call == ImagesCall(env, req, FALSE)
           extension == IF req.mode.s = "edit" THEN "png" ELSE validateOutputFormat(Undefined)
       IN  \/ /\ Respond(<<call, Json(500, [error |-> "thrown by the provider"])>>)
              /\ UNCHANGED disk
           \/ /\ Respond(<<call, Json(500, [error |-> "Failed to retrieve image data from API."])>>)
              /\ UNCHANGED disk
           \/ \E k \in 1 .. call.call.n :
                 LET images == SavedImages(k, extension, loc.effectiveStorageMode)
                     names == { images[j].filename : j \in 1 .. k }
                 IN  IF loc.effectiveStorageMode = "fs"
                     THEN \E written \in SUBSET names :
                             /\ disk' = [disk EXCEPT !.files = @ \cup written]
                             /\ IF written = names
                                THEN Respond(<<call>> \o [j \in 1 .. k |-> WriteFile(images[j].filename)]
                                             \o <<Json(200, [images |-> images])>>)
                                ELSE Respond(<<call>>
                                             \o SelectSeq([j \in 1 .. k |-> WriteFile(images[j].filename)],
                                                          LAMBDA w : w.file \in written)
                                             \o <<Json(500, [error |-> "thrown by writeFile"])>>)
                     ELSE /\ Respond(<<call, Json(200, [images |-> images])>>)
                          /\ UNCHANGED disk
    /\ UNCHANGED <<env, req, loc>>
    /\ UNCHANGED costVars

NextStreamed ==
    \/ ReceiveStreamed
    \/ StreamedPrepare
    \/ StreamedValidate
    \/ StreamedEvent
    \/ StreamedThrows
    \/ StreamedEnd
    \/ StreamedGenerate

\* either revision of POST /api/images handles the request
NextStreams == NextImages \/ NextStreamed

\* the environments of the streaming questions: a password, the OpenAI key,
\* either storage mode
StreamEnvs ==
    { Environment(Str("hunter2"), Undefined, Undefined, Undefined, Undefined,
                  Str("sk-key"), s, Undefined) : s \in {Str("fs"), Str("indexeddb")} }

InitStreams ==
    /\ NoEstimate
    /\ env \in StreamEnvs
    /\ disk \in Disks
    /\ req = NoRequest
    /\ pc = "listening"
    /\ loc = NoLocals
    /\ log = <<>>

SpecStreams == InitStreams /\ [][NextStreams]_vars

(***************************************************************************)
(* What the claims about the routes speak about: the request, the          *)
(* environment and the log of what the handler did.                        *)
(***************************************************************************)
Handling == req.route # "none"
Finished == pc = "finished"

Did(op) == { i \in 1 .. Len(log) : log[i].op = op }

EnvIs(v, s) == v.t = "string" /\ v.s = s

PasswordSet == env.APP_PASSWORD.t = "string"

\* the request carries the SHA-256 hex digest of APP_PASSWORD
CarriesDigest ==
    /\ req.passwordHash.t = "string"
    /\ req.passwordHash.s = "f52fbd32b2b3b86ff88ef6c490628285f482af15ddcb29541f94bcf526a3f6c7"

(***************************************************************************)
(* C13: when APP_PASSWORD is set, a request to any of the four handlers    *)
(* (POST /api/images, POST /api/video, GET /api/video, POST               *)
(* /api/prompt-enhance) that does not carry the SHA-256 hex digest of      *)
(* APP_PASSWORD causes no request to the provider and no file write, and   *)
(* is refused: none of its answers is a 200, a refusal being the 401.      *)
(***************************************************************************)
C13_PasswordGate ==
    (Handling /\ PasswordSet /\ ~CarriesDigest) =>
        /\ Did("upstream") = {}
        /\ Did("writeFile") = {}
        /\ \A i \in Did("json") : log[i].status # 200
        /\ Did("stream") = {}

(***************************************************************************)
(* C14: the storage mode POST /api/images works with is 'fs' when          *)
(* NEXT_PUBLIC_IMAGE_STORAGE_MODE is 'fs', 'indexeddb' when it is          *)
(* 'indexeddb', and otherwise 'indexeddb' exactly when VERCEL is '1'; an   *)
(* explicit setting overrides the Vercel detection.                        *)
(***************************************************************************)
ModeComputed == req.route = "POST /api/images" /\ loc.effectiveStorageMode # "unset"

ExplicitFs == EnvIs(env.NEXT_PUBLIC_IMAGE_STORAGE_MODE, "fs")
ExplicitIndexedDb == EnvIs(env.NEXT_PUBLIC_IMAGE_STORAGE_MODE, "indexeddb")
OnVercel == EnvIs(env.VERCEL, "1")

C14_StorageMode ==
    ModeComputed =>
        /\ ExplicitFs => loc.effectiveStorageMode = "fs"
        /\ ExplicitIndexedDb => loc.effectiveStorageMode = "indexeddb"
        /\ (~ExplicitFs /\ ~ExplicitIndexedDb) =>
              (loc.effectiveStorageMode = "indexeddb" <=> OnVercel)
        /\ loc.effectiveStorageMode \in {"fs", "indexeddb"}

\* an explicit 'fs' on Vercel: the handler works with 'fs' and has made the
\* output directory
C14_Witness ==
    /\ ModeComputed
    /\ ExplicitFs
    /\ OnVercel
    /\ loc.effectiveStorageMode = "fs"
    /\ Did("mkdir") # {}

(***************************************************************************)
(* The credentials question: POST /api/images under every combination of   *)
(* the Azure variables and the OpenAI key.                                 *)
(***************************************************************************)
InitCredentials ==
    /\ NoEstimate
    /\ env \in CredentialEnvs
    /\ disk \in Disks
    /\ req = NoRequest
    /\ pc = "listening"
    /\ loc = NoLocals
    /\ log = <<>>

SpecCredentials == InitCredentials /\ [][NextImages]_vars

SameValue(a, b) == a.t = b.t /\ (a.t = "string" => a.s = b.s)

AllFourAzureSet ==
    /\ env.AZURE_OPENAI_API_KEY.t = "string"
    /\ env.AZURE_OPENAI_ENDPOINT.t = "string"
    /\ env.AZURE_OPENAI_DEPLOYMENT_NAME.t = "string"
    /\ env.AZURE_OPENAI_API_VERSION.t = "string"

\* the Azure key, endpoint, deployment and headers
UsesAzure(client) ==
    /\ SameValue(client.apiKey, env.AZURE_OPENAI_API_KEY)
    /\ SameValue(client.baseURL, env.AZURE_OPENAI_ENDPOINT)
    /\ client.defaultHeaders.t = "object"
    /\ SameValue(client.defaultHeaders.api_key, env.AZURE_OPENAI_API_KEY)
    /\ SameValue(client.defaultHeaders.x_ms_oai_image_generation_deployment,
                 env.AZURE_OPENAI_DEPLOYMENT_NAME)

\* the standard client: the OpenAI key and base URL, no Azure headers
UsesOpenAI(client) ==
    /\ SameValue(client.apiKey, env.OPENAI_API_KEY)
    /\ SameValue(client.baseURL, env.OPENAI_API_BASE_URL)
    /\ client.defaultHeaders.t = "undefined"

(***************************************************************************)
(* C15: the image route calls the provider with the Azure configuration    *)
(* (Azure key, endpoint, deployment, Azure headers) exactly when all four  *)
(* of AZURE_OPENAI_API_KEY, AZURE_OPENAI_ENDPOINT,                         *)
(* AZURE_OPENAI_DEPLOYMENT_NAME and AZURE_OPENAI_API_VERSION are set, and  *)
(* otherwise with the standard client, OPENAI_API_KEY and no Azure         *)
(* settings.                                                               *)
(***************************************************************************)
C15_AzureWhenAllFour ==
    \A i \in Did("upstream") :
        log[i].call.by = "POST /api/images" =>
            IF AllFourAzureSet
            THEN UsesAzure(log[i].call.client)
            ELSE UsesOpenAI(log[i].call.client)

\* the images of a sequence that carry a path
WithPath(images) ==
    { images[k].filename : k \in { k \in 1 .. Len(images) : images[k].path.t # "undefined" } }

\* the file names the i-th entry of the log reports to the client with a
\* path: in the JSON body, in a 'completed' event or in the 'done' event
ReportedWithPath(i) ==
    IF log[i].op = "json"
    THEN IF log[i].status = 200 THEN WithPath(log[i].body.images) ELSE {}
    ELSE IF log[i].op = "enqueue"
    THEN IF log[i].event.type = "done" THEN WithPath(log[i].event.images)
         ELSE IF log[i].event.type = "completed" /\ log[i].event.path.t # "undefined"
         THEN {log[i].event.filename}
         ELSE {}
    ELSE {}

WrittenBefore(i, f) ==
    \E j \in 1 .. (i - 1) : log[j].op = "writeFile" /\ log[j].file = f

EffectiveIndexedDb == ExplicitIndexedDb \/ (~ExplicitFs /\ OnVercel)

(***************************************************************************)
(* C17: when the effective storage mode is 'indexeddb' (explicitly or by   *)
(* Vercel detection), no request handler creates a directory or writes a   *)
(* file on the server's filesystem, and no image returned by POST          *)
(* /api/images carries a path.                                             *)
(***************************************************************************)
C17_IndexedDbLeavesDiskAlone ==
    (Handling /\ EffectiveIndexedDb) =>
        /\ Did("mkdir") = {}
        /\ Did("writeFile") = {}
        /\ req.route = "POST /api/images" =>
              \A i \in 1 .. Len(log) : ReportedWithPath(i) = {}

\* the request asks for one image: n is absent (it defaults to 1) or "1"
AsksForOne == req.n.t = "null" \/ EnvIs(req.n, "1")

\* the request's partial_images is a numeral greater than 0
AsksForPartials ==
    /\ req.partial_images.t = "string"
    /\ \E k \in 1 .. (MaxN + 1) : req.partial_images.s = ToString(k)

(***************************************************************************)
(* C20: POST /api/images answers with an SSE stream only when one image is *)
(* requested (n = 1) and partial_images is greater than 0; for every other *)
(* combination it answers with a single JSON body and sends no             *)
(* partial_images parameter to the provider.                               *)
(***************************************************************************)
C20_StreamOnlyForOne ==
    req.route = "POST /api/images" =>
        /\ Did("stream") # {} => (AsksForOne /\ AsksForPartials)
        /\ ~(AsksForOne /\ AsksForPartials) =>
              /\ Did("stream") = {}
              /\ Did("enqueue") = {}
              /\ \A i \in Did("upstream") : log[i].call.tool.partial_images.t = "undefined"
              /\ Finished => Cardinality(Did("json")) = 1

\* two images with partial_images = 2: two calls of the provider, one JSON
\* body
C20_Witness ==
    /\ req.route = "POST /api/images"
    /\ EnvIs(req.n, "2")
    /\ AsksForPartials
    /\ Finished
    /\ Cardinality(Did("upstream")) = 2
    /\ \E i \in Did("json") : log[i].status = 200

\* the SSE events sent, by position in the log
Sent(type) == { i \in Did("enqueue") : log[i].event.type = type }
Terminal == Sent("done") \cup Sent("error")

(***************************************************************************)
(* C18: every SSE stream opened by POST /api/images ends with exactly one  *)
(* terminal event, 'done' or 'error' and never both, after which the       *)
(* stream is closed and nothing more is sent; also when the provider's     *)
(* stream yields no image or fails, even after 'completed' events.         *)
(***************************************************************************)
C18_OneTerminalEvent ==
    /\ Cardinality(Terminal) <= 1
    /\ Cardinality(Did("close")) <= 1
    /\ \A i \in Terminal : i < Len(log) /\ log[i + 1].op = "close"
    /\ \A i \in Did("close") : i = Len(log) /\ (i - 1) \in Terminal
    /\ \A i \in Did("enqueue") : Did("stream") # {} /\ \A j \in Did("stream") : j < i
    /\ (Finished /\ Did("stream") # {}) =>
          /\ Cardinality(Terminal) = 1
          /\ Did("close") # {}

\* a stream that failed after a 'completed' event: one 'error', then closed
C18_Witness ==
    /\ Finished
    /\ Sent("completed") # {}
    /\ Sent("error") # {}
    /\ Sent("done") = {}
    /\ log[Len(log)].op = "close"

\* the file names of the 'completed' events sent before position i, in order
CompletedBefore(i) ==
    LET sent == SelectSeq(SubSeq(log, 1, i - 1),
                          LAMBDA e : e.op = "enqueue" /\ e.event.type = "completed")
    IN  [k \in 1 .. Len(sent) |-> sent[k].event.filename]

FileNames(images) == [k \in 1 .. Len(images) |-> images[k].filename]

(***************************************************************************)
(* C19: in every SSE stream of POST /api/images that ends with 'done', the *)
(* images of the 'done' event are exactly the images of the stream's       *)
(* 'completed' events, in the same order and with the same file names, and *)
(* each 'partial_image' event carries as index the number of 'completed'   *)
(* events sent before it.                                                  *)
(***************************************************************************)
C19_DoneListsCompleted ==
    /\ \A i \in Sent("done") : FileNames(log[i].event.images) = CompletedBefore(i)
    /\ \A i \in Sent("partial_image") : log[i].event.index = Len(CompletedBefore(i))

\* a stream of two images with a partial image between them
C19_Witness ==
    /\ Finished
    /\ \E i \in Sent("done") : Len(log[i].event.images) = 2
    /\ \E i \in Sent("partial_image") : log[i].event.index = 1

\* the handler of POST /api/images refused the request before it came to
\* generating: the key, the directory, the password or a field was wrong
RefusedImages ==
    \E i \in Did("json") :
        \/ log[i].status \in {400, 401}
        \/ /\ log[i].status = 500
           /\ log[i].body.error \in
                {"Server configuration error: API key not found.",
                 "Failed to access or ensure image output directory exists."}

\* the images POST /api/images (route.ts) has asked the provider for: each
\* responses.create call asks for one
ImagesAsked ==
    Cardinality({ i \in Did("upstream") : log[i].call.by = "POST /api/images" })

(***************************************************************************)
(* C21: for every value of the form field n (absent, 0, non-numeric, ...), *)
(* a request POST /api/images has accepted asks the provider, when it is   *)
(* finished, for at least 1 and at most 10 images in total.                *)
(***************************************************************************)
C21_BetweenOneAndTen ==
    (Finished /\ req.route = "POST /api/images" /\ ~RefusedImages) =>
        /\ ImagesAsked >= 1
        /\ ImagesAsked <= MaxImagesPerRequest

\* the video creations POST /api/video has sent to the provider
Creations == { i \in Did("upstream") : log[i].call.by = "POST /api/video" }

\* twice the number a seconds field denotes when it is a numeral
TwiceValue ==
    ("0" :> 0) @@ ("4" :> 8) @@ ("5" :> 10) @@ ("6" :> 12) @@ ("7" :> 14) @@
    ("8" :> 16) @@ ("10" :> 20) @@ ("10.5" :> 21) @@ ("11" :> 22) @@ ("12" :> 24) @@
    ("100" :> 200) @@ ("-3" :> -6)

\* the allowed value nearest to the number twice / 2, 8 on a tie
Nearest(twice) ==
    LET nearest == { a \in {4, 8, 12} :
                        \A b \in {4, 8, 12} : Abs(2 * a - twice) <= Abs(2 * b - twice) }
    IN  IF 8 \in nearest THEN 8 ELSE CHOOSE a \in nearest : TRUE

Numeric(field) == field.t = "string" /\ field.s \in DOMAIN TwiceValue

(***************************************************************************)
(* C22 as stated: the seconds POST /api/video forwards is one of 4, 8 and  *)
(* 12: the allowed value nearest to the requested numeric value (the value  *)
(* itself when it is allowed, 8 on a tie), and 8 when the field is absent  *)
(* or not numeric.                                                         *)
(***************************************************************************)
C22_Original ==
    \A i \in Creations :
        /\ log[i].call.seconds \in {"4", "8", "12"}
        /\ Numeric(req.seconds) =>
              log[i].call.seconds = ToString(Nearest(TwiceValue[req.seconds.s]))
        /\ ~Numeric(req.seconds) => log[i].call.seconds = "8"

(***************************************************************************)
(* C22 amended: the seconds POST /api/video forwards is one of 4, 8 and    *)
(* 12: the allowed value nearest to the integer parseInt reads at the      *)
(* start of the field (that integer when it is allowed, 8 on a tie), and 8 *)
(* when the field is absent, empty or starts with no integer.              *)
(***************************************************************************)
C22_Amended ==
    \A i \in Creations :
        LET read == IF Not(req.seconds) THEN NaN ELSE parseInt(req.seconds) IN
        /\ log[i].call.seconds \in {"4", "8", "12"}
        /\ read.t = "number" => log[i].call.seconds = ToString(Nearest(2 * read.n))
        /\ read.t = "NaN" => log[i].call.seconds = "8"

\* a tie, a value outside the range and a fraction have been forwarded
C22_Witness ==
    /\ Finished
    /\ \E i \in Creations :
          \/ req.seconds = Str("10") /\ log[i].call.seconds = "8"
          \/ req.seconds = Str("100") /\ log[i].call.seconds = "12"
          \/ req.seconds = Str("10.5") /\ log[i].call.seconds = "8"

\* the status the provider answered GET /api/video's poll with is one of
\* these words in some spelling
Spellings ==
    [queued |-> {"queued"}, in_progress |-> {"in_progress"}, running |-> {"Running"},
     notstarted |-> {"NOTSTARTED"}, processing |-> {"processing"},
     succeeded |-> {"succeeded"}, completed |-> {"Completed"},
     failed |-> {"failed"}, cancelled |-> {"Cancelled"}]

Says(word) == loc.statusJson.t = "string" /\ loc.statusJson.s \in Spellings[word]

\* GET /api/video has finished after the provider answered its poll
Polled == Finished /\ req.route = "GET /api/video" /\ loc.statusJson.t # "none"

\* the handler's answer: the last entry of its log
Answer == log[Len(log)]

\* the downloads and writes of GET /api/video
Downloads == { i \in Did("upstream") : log[i].call.url = "/videos/job1/content?variant=video" }
Quiet == Downloads = {} /\ Did("writeFile") = {}

\* what the claim says of the statuses that are no success
C25_NotSucceeded ==
    /\ Not(loc.statusJson) =>
          Answer.status = 200 /\ Answer.body.status = "queued" /\ Quiet
    /\ \A word \in {"queued", "in_progress", "running", "notstarted", "processing"} :
          Says(word) => Answer.status = 200 /\ Answer.body.status = word /\ Quiet
    /\ \A word \in {"failed", "cancelled"} :
          Says(word) =>
             /\ Answer.status = 500
             /\ DOMAIN Answer.body = {"status", "error"}
             /\ Answer.body.status = word
             /\ Quiet

MaxPolls == 2

Pollers == 1 .. MaxPolls

\* the video of job1
VideoName == FileName("job1", "sora", "mp4")

\* an entry of the log, by the poll that made it
By(p, entry) == entry @@ [p |-> p]

\* the poll's handler returns an answer
Answers(p, entries) ==
    /\ log' = log \o [k \in 1 .. Len(entries) |-> By(p, entries[k])]
    /\ pc' = [pc EXCEPT ![p] = "finished"]

\* the poll's handler goes on to its next await
GoesOn(p, entries, next) ==
    /\ log' = log \o [k \in 1 .. Len(entries) |-> By(p, entries[k])]
    /\ pc' = [pc EXCEPT ![p] = next]

InitPolls ==
    /\ NoEstimate
    /\ env = Environment(Undefined, Str("azure-key"), Str("https://r.openai.azure.com/openai/v1"),
                         Undefined, Undefined, Undefined, Undefined, Undefined)
    /\ disk \in { [dir |-> d, files |-> {}, partial |-> {}] : d \in BOOLEAN }
    /\ req = [p \in Pollers |-> [NoRequest EXCEPT !.route = "GET /api/video", !.jobId = Str("job1")]]
    /\ pc = [p \in Pollers |-> "video GET: start"]
    /\ loc = [p \in Pollers |-> NoLocals]
    /\ log = <<>>

\* lines 205-224 and 253-262: up to the answer to `await fetchVideoStatus`
PollStatus(p) ==
    /\ pc[p] = "video GET: start"
    /\ LET poll == Fetch("GET /api/video", "GET", "/videos/job1") IN
       IF Not(videoConfig(env).apiKey) \/ Not(videoConfig(env).baseURL)
       THEN /\ Answers(p, <<Json(500, [error |-> "Server configuration error: API credentials are incomplete."])>>)
            /\ UNCHANGED loc
       ELSE IF Not(req[p].jobId)
       THEN /\ Answers(p, <<Json(400, [error |-> "jobId is required."])>>)
            /\ UNCHANGED loc
       ELSE \/ /\ Answers(p, <<poll, Json(500, [error |-> "Failed to poll video status"])>>)
               /\ UNCHANGED loc
            \/ \E statusJson \in {Str("Running"), Str("succeeded"), Str("failed")} :
                 LET status == toLowerCase(statusJson) IN
                 /\ loc' = [loc EXCEPT ![p].statusJson = statusJson]
                 /\ IF notOver(status)
                    THEN Answers(p, <<poll, Json(200, [status |-> Or(status, Str("queued")).s])>>)
                    ELSE IF status.s \in {"succeeded", "completed"}
                    THEN GoesOn(p, <<poll>>, "video GET: ensure")
                    ELSE Answers(p, <<poll, Json(500, [status |-> status.s,
                                      error |-> "Video generation did not complete successfully."])>>)
    /\ UNCHANGED <<env, disk, req>>
    /\ UNCHANGED costVars

\* the answers of GET for a finished job
Succeeded ==
    Json(200, [status |-> "succeeded",
               videos |-> <<[filename |-> VideoName, path |-> ImagePath(VideoName)]>>])
DownloadFailed == Json(500, [error |-> "Failed to download completed video."])

\* line 228: `await ensureOutputDirExists()`
PollEnsure(p) ==
    /\ pc[p] = "video GET: ensure"
    /\ \E e \in ensureOutputDirExists(disk) :
          /\ disk' = e.disk
          /\ IF e.threw
             THEN Answers(p, e.did \o <<DownloadFailed>>)
             ELSE GoesOn(p, e.did, "video GET: access")
    /\ UNCHANGED <<env, req, loc>>
    /\ UNCHANGED costVars

\* lines 232-247: `await fs.access(filepath)`, and the answer when the file
\* is there
PollAccess(p) ==
    /\ pc[p] = "video GET: access"
    /\ IF VideoName \in disk.files
       THEN Answers(p, <<Succeeded>>)
       ELSE GoesOn(p, <<>>, "video GET: download")
    /\ UNCHANGED <<env, disk, req, loc>>
    /\ UNCHANGED costVars

\* `await downloadResp.arrayBuffer()`: the video's content has arrived
ArrayBuffer == [op |-> "arrayBuffer"]

\* downloadVideo, lines 72-89: the fetch, which may fail, the body, the
\* output directory
PollFetch(p) ==
    /\ pc[p] = "video GET: download"
    /\ LET download == Fetch("GET /api/video", "GET", "/videos/job1/content?variant=video") IN
       \/ /\ Answers(p, <<download, DownloadFailed>>)
          /\ UNCHANGED disk
       \/ \E e \in ensureOutputDirExists(disk) :
             /\ disk' = e.disk
             /\ IF e.threw
                THEN Answers(p, <<download, ArrayBuffer>> \o e.did \o <<DownloadFailed>>)
                ELSE GoesOn(p, <<download, ArrayBuffer>> \o e.did, "video GET: write")
    /\ UNCHANGED <<env, req, loc>>
    /\ UNCHANGED costVars

\* downloadVideo, line 93: fs.writeFile opens the file, which creates or
\* empties it, or fails to
PollOpen(p) ==
    /\ pc[p] = "video GET: write"
    /\ \/ /\ disk.dir
          /\ disk' = [disk EXCEPT !.files = @ \cup {VideoName}, !.partial = @ \cup {VideoName}]
          /\ GoesOn(p, <<>>, "video GET: writing")
       \/ /\ Answers(p, <<DownloadFailed>>)
          /\ UNCHANGED disk
    /\ UNCHANGED <<env, req, loc>>
    /\ UNCHANGED costVars

\* downloadVideo, lines 93-95 and GET's answer: fs.writeFile has written the
\* buffer, or fails halfway.  With another write of the file under way the
\* file's content is the one's or a mix of both.
PollWrite(p) ==
    /\ pc[p] = "video GET: writing"
    /\ \/ /\ \/ disk' = [disk EXCEPT !.partial = @ \ {VideoName}]
             \/ /\ \E q \in Pollers \ {p} : pc[q] = "video GET: writing"
                /\ disk' = disk
          /\ Answers(p, <<WriteFile(VideoName), Succeeded>>)
       \/ /\ Answers(p, <<DownloadFailed>>)
          /\ UNCHANGED disk
    /\ UNCHANGED <<env, req, loc>>
    /\ UNCHANGED costVars

NextPolls ==
    \E p \in Pollers :
        \/ PollStatus(p)
        \/ PollEnsure(p)
        \/ PollAccess(p)
        \/ PollFetch(p)
        \/ PollOpen(p)
        \/ PollWrite(p)

SpecPolls == InitPolls /\ [][NextPolls]_vars

\* the times the content of job1's video has arrived from the provider
VideoDownloads == { i \in 1 .. Len(log) : log[i].op = "arrayBuffer" }

(***************************************************************************)
(* C23: across the polls GET /api/video of one job that see the job        *)
(* succeeded or completed, overlapping ones included, the video is         *)
(* downloaded from the provider at most once.                              *)
(***************************************************************************)
C23_DownloadedOnce == Cardinality(VideoDownloads) <= 1

\* the handler's last step answered 'succeeded' with the video's path
AnswersSucceeded ==
    /\ Len(log') > Len(log)
    /\ log'[Len(log')].op = "json"
    /\ log'[Len(log')].status = 200
    /\ log'[Len(log')].body.status = "succeeded"

(***************************************************************************)
(* C24: whenever GET /api/video answers 'succeeded' with a video path, the *)
(* file <jobId>-sora.mp4 is in the output directory and completely         *)
(* written, also when another poll of the job is writing it.               *)
(***************************************************************************)
C24_WrittenWhenAnswered ==
    [][AnswersSucceeded => (VideoName \in disk'.files /\ VideoName \notin disk'.partial)]_vars

(***************************************************************************)
(* POST /api/images under several requests at once (src/src/app/api/       *)
(* images/route.ts, the loop of lines 304-333).  Each handler reads the    *)
(* clock once, at line 190, and names its files after that reading.        *)
(***************************************************************************)
\* the requests in flight
MaxRequests == 2

Requesters == 1 .. MaxRequests

\* the milliseconds the clock shows while the requests are handled
MaxClock == 2

\* Date.now() at the clock's k-th millisecond
DateNow(k) == IF k = 1 THEN "1767225600000" ELSE "176722560000" \o ToString(k - 1)

\* the clock can show `now`: it has not run backwards since a request read
\* it, and a call to the provider has taken more than a millisecond
CanShow(now) ==
    \A q \in Requesters :
        loc[q].timestamp # 0 =>
            IF \E i \in 1 .. Len(log) : log[i].op = "upstream" /\ log[i].p = q
            THEN now > loc[q].timestamp
            ELSE now >= loc[q].timestamp

InitPairs ==
    /\ NoEstimate
    /\ env = Environment(Undefined, Undefined, Undefined, Undefined, Undefined,
                         Str("sk-key"), Undefined, Undefined)
    /\ disk = [dir |-> TRUE, files |-> {}]
    /\ req \in [Requesters -> { ImagesRequest(Null, Str("generate"), Str("a cat"), n, Null, 0) :
                                  n \in {Null, Str("2")} }]
    /\ pc = [r \in Requesters |-> "images: start"]
    /\ loc = [r \in Requesters |-> NoLocals]
    /\ log = <<>>

\* lines 90-191: the key, the storage mode, the output directory, the
\* password, the fields, and Date.now()
PairStart(r) ==
    /\ pc[r] = "images: start"
    /\ LET mode == effectiveStorageMode(env)
           denied == passwordCheck(env, req[r].passwordHash)
           n == parseInt(Or(req[r].n, Str("1")))
           partialImages == parseInt(Or(req[r].partial_images, Str("0")))
       IN  IF Not(config(env).apiKey)
           THEN /\ Answers(r, <<Json(500, [error |-> "Server configuration error: API key not found."])>>)
                /\ UNCHANGED <<disk, loc>>
           ELSE \E o \in (IF mode = "fs" THEN ensureOutputDirExists(disk)
                          ELSE { [disk |-> disk, did |-> <<>>, threw |-> FALSE] }) :
                  /\ disk' = o.disk
                  /\ IF o.threw
                     THEN /\ Answers(r, o.did \o <<Json(500, [error |-> "Failed to access or ensure image output directory exists."])>>)
                          /\ UNCHANGED loc
                     ELSE IF denied # <<>>
                     THEN Answers(r, o.did \o denied) /\ UNCHANGED loc
                     ELSE IF Not(req[r].mode) \/ Not(req[r].prompt)
                     THEN /\ Answers(r, o.did \o <<Json(400, [error |-> "Missing required parameters: mode and prompt"])>>)
                          /\ UNCHANGED loc
                     ELSE \E now \in 1 .. MaxClock :
                             /\ CanShow(now)
                             /\ loc' = [loc EXCEPT ![r].effectiveStorageMode = mode,
                                                   ![r].n = n,
                                                   ![r].partialImages = partialImages,
                                                   ![r].useStreaming = useStreaming(partialImages, n),
                                                   ![r].timestamp = now]
                             /\ GoesOn(r, o.did, "images: loop")
    /\ UNCHANGED <<env, req>>
    /\ UNCHANGED costVars

\* lines 304-333: one round of the loop
PairGenerate(r) ==
    /\ pc[r] = "images: loop"
    /\ Lt(Num(loc[r].i), MathMin(loc[r].n, Num(MaxImagesPerRequest)))
    /\ LET extension == validateOutputFormat(Undefined)
           filename == FileName(DateNow(loc[r].timestamp), ToString(loc[r].i), extension)
           call == ResponsesCreate(env, loc[r], FALSE)
       IN  \/ /\ Answers(r, <<call, Json(500, [error |-> "thrown by the provider"])>>)
              /\ UNCHANGED <<disk, loc>>
           \/ /\ GoesOn(r, <<call>>, pc[r])
              /\ loc' = [loc EXCEPT ![r].i = @ + 1]
              /\ UNCHANGED disk
           \/ \E o \in persist(disk, loc[r].effectiveStorageMode, filename) :
                 /\ disk' = o.disk
                 /\ IF o.threw
                    THEN /\ Answers(r, <<call, Json(500, [error |-> "thrown by writeFile"])>>)
                         /\ UNCHANGED loc
                    ELSE /\ GoesOn(r, <<call>> \o o.did, pc[r])
                         /\ loc' = [loc EXCEPT ![r].i = @ + 1,
                                               ![r].savedImagesData =
                                                   Append(@, SavedImage(filename, extension,
                                                                        loc[r].effectiveStorageMode))]
    /\ UNCHANGED <<env, req>>
    /\ UNCHANGED costVars

\* lines 335-339: the loop is over
PairRespond(r) ==
    /\ pc[r] = "images: loop"
    /\ ~Lt(Num(loc[r].i), MathMin(loc[r].n, Num(MaxImagesPerRequest)))
    /\ IF loc[r].savedImagesData = <<>>
       THEN Answers(r, <<Json(500, [error |-> "Failed to generate any images."])>>)
       ELSE Answers(r, <<Json(200, [images |-> loc[r].savedImagesData])>>)
    /\ UNCHANGED <<env, disk, req, loc>>
    /\ UNCHANGED costVars

NextPairs ==
    \E r \in Requesters :
        \/ PairStart(r)
        \/ PairGenerate(r)
        \/ PairRespond(r)

SpecPairs == InitPairs /\ [][NextPairs]_vars

\* the images stored so far: the entries of the log that write a file
Stored == { i \in 1 .. Len(log) : log[i].op = "writeFile" }

(***************************************************************************)
(* C26: no two images POST /api/images produces are stored under the same  *)
(* file name, within one request or between two requests, concurrent ones  *)
(* included: no image is overwritten by another.                           *)
(***************************************************************************)
C26_DistinctFileNames ==
    \A i, j \in Stored : i # j => log[i].file # log[j].file

====
